---- MODULE Spec2Model ----
(***************************************************************************)
(* Model of the pika-casino-lobby games catalogue: the games and           *)
(* categories reducers, the fetchGamesByCategory thunk and the effect that *)
(* triggers it, retryWithBackoff, the game mapping of fetchCategoryGames,  *)
(* the endpoint classification and the pagination selector.                *)
(***************************************************************************)
EXTENDS Integers, Sequences, FiniteSets, TLC

VARIABLES
    games,        \* state.games: the GamesState record of gamesSlice
    lastAction,   \* the action the games reducer handled last
    categories,   \* state.categories: the CategoriesState record
    lastCatAction, \* the action the categories reducer handled last
    retry,        \* one call of retryWithBackoff: its options, position and results
    cls,          \* one category reference through the thunk's and the service's classification
    norm,         \* one raw game object through the game mapping, once and again
    fetch,        \* the GamesList component: effect dependencies, thunks started, requests
    limiter,      \* the proxy routes' RateLimiter, the clock, and what its calls returned
    config,       \* one config response through fetchConfig's extraction of categories
    bar,          \* the SearchBar component: its local value, its debounce timers, the user
    cache,        \* the proxy routes' SimpleCache, the clock, and what its calls returned
    thunk         \* one invocation of fetchGamesByCategory: its request and what it dispatched

gameVars == <<games, lastAction>>
catVars == <<categories, lastCatAction>>

vars == <<games, lastAction, categories, lastCatAction, retry, cls, norm, fetch, limiter,
          config, bar, cache, thunk>>

notGames == <<catVars, retry, cls, norm, fetch, limiter, config, bar, cache, thunk>>
notCategories == <<gameVars, retry, cls, norm, fetch, limiter, config, bar, cache, thunk>>
notRetry == <<gameVars, catVars, cls, norm, fetch, limiter, config, bar, cache, thunk>>
notCls == <<gameVars, catVars, retry, norm, fetch, limiter, config, bar, cache, thunk>>
notNorm == <<gameVars, catVars, retry, cls, fetch, limiter, config, bar, cache, thunk>>
notStore == <<retry, cls, norm, limiter, config, bar, cache, thunk>>
notLimiter == <<gameVars, catVars, retry, cls, norm, fetch, config, bar, cache, thunk>>
notConfig == <<gameVars, catVars, retry, cls, norm, fetch, limiter, bar, cache, thunk>>
notBar == <<catVars, retry, cls, norm, fetch, limiter, config, cache, thunk>>
notCache == <<gameVars, catVars, retry, cls, norm, fetch, limiter, config, bar, thunk>>
notThunk == <<catVars, cls, norm, fetch, limiter, config, bar, cache>>

-----------------------------------------------------------------------------
(* Bounds and input domains *)

MaxLen == 2          \* longest games list one upstream response carries
MaxPageSize == 12    \* cap on pageSize growth through INCREASE_PAGE_SIZE

NULL == "null"                    \* JavaScript null (error: string | null)
NONE == "none"                    \* payload of an action that carries none

Ids == {1, 2}

\* Strings are sequences of one-character strings.
NameOf(id) ==
    CASE id = 1 -> <<"A", "b">>
      [] id = 2 -> <<"b">>
      [] OTHER  -> <<"a">>

Game(id) == [id |-> id, name |-> NameOf(id)]

RECURSIVE SeqsUpTo(_, _)
SeqsUpTo(S, n) ==
    IF n = 0 THEN {<<>>}
    ELSE LET shorter == SeqsUpTo(S, n - 1)
         IN shorter \cup {Append(s, x) : s \in shorter, x \in S}

GameLists == SeqsUpTo({Game(i) : i \in Ids}, MaxLen)

SearchTexts == {<<>>, <<" ">>, <<"A">>}
Messages == {"Failed to fetch category games", "timeout"}
PageNumbers == {0, 1, 2, 3}
PageSizes == {0, 1, 2}
TotalCounts == {0, 3}
Increments == {0, 10}

\* a || b on numbers: 0 is falsy
OrNum(a, b) == IF a = 0 THEN b ELSE a

-----------------------------------------------------------------------------
(* Strings: a string is a sequence of tokens, each standing for one or     *)
(* more of its characters; the String methods the code uses work on them.  *)

startsWith(s, prefix) ==
    /\ Len(prefix) <= Len(s)
    /\ SubSeq(s, 1, Len(prefix)) = prefix

includes(s, sub) ==
    \E i \in 1..(Len(s) - Len(sub) + 1) : SubSeq(s, i, i + Len(sub) - 1) = sub

\* the literals the code compares a page reference with
SLASH == <<"/">>
CASINO == <<"/", "casino">>
PAGES_EN == <<"/", "pages", "/", "en">>
PAGES_EN_CASINO == <<"/", "pages", "/", "en", "/", "casino">>
EN_GAMES_TILES == <<"/", "en", "/", "games", "/", "tiles">>
HTTP == <<"http://">>
HTTPS == <<"https://">>

\* new URL(u).pathname of an absolute URL scheme host path [?query]
RECURSIVE uptoQuery(_)
uptoQuery(s) ==
    IF s = <<>> \/ Head(s) = "?" THEN <<>> ELSE <<Head(s)>> \o uptoQuery(Tail(s))

pathname(url) ==
    LET rest == uptoQuery(SubSeq(url, 3, Len(url)))
    IN IF rest = <<>> THEN SLASH ELSE rest

-----------------------------------------------------------------------------
(* Endpoint capability: the thunk's supportsSearch and the service's       *)
(* supportsPagination                                                      *)

\* gamesSlice.ts fetchGamesByCategory: decided on the reference as given
supportsSearch(getPageUrl) ==
    \/ includes(getPageUrl, EN_GAMES_TILES)
    \/ getPageUrl = CASINO
    \/ getPageUrl = PAGES_EN_CASINO

\* services/api.ts fetchCategoryGames: the path taken from the reference
extractPath(getPageUrl) ==
    IF startsWith(getPageUrl, HTTP) \/ startsWith(getPageUrl, HTTPS)
    THEN pathname(getPageUrl)
    ELSE IF ~startsWith(getPageUrl, SLASH)
         THEN SLASH \o getPageUrl
         ELSE getPageUrl

\* services/api.ts fetchCategoryGames: the endpoint the proxy is asked for
resolveCategoryPath(getPageUrl) ==
    LET categoryPath == extractPath(getPageUrl)
    IN IF categoryPath = CASINO \/ categoryPath = PAGES_EN_CASINO
       THEN EN_GAMES_TILES
       ELSE IF ~startsWith(categoryPath, PAGES_EN)
               /\ ~startsWith(categoryPath, EN_GAMES_TILES)
            THEN PAGES_EN \o categoryPath
            ELSE categoryPath

paginatesEverything(categoryPath) == TRUE

\* services/api.ts lines 226-230
supportsPagination(categoryPath) ==
    \/ includes(categoryPath, EN_GAMES_TILES)
    \/ categoryPath = CASINO
    \/ categoryPath = PAGES_EN_CASINO

-----------------------------------------------------------------------------
(* JavaScript values of an upstream payload, and the game mapping of       *)
(* fetchCategoryGames (services/api.ts)                                    *)

NoFields == [k \in {} |-> 0]

JsUndefined == [kind |-> "undefined", obj |-> NoFields, str |-> <<>>]
JsNull == [kind |-> "null", obj |-> NoFields, str |-> <<>>]
JsString(tokens) == [kind |-> "string", obj |-> NoFields, str |-> tokens]
\* a number, with the tokens String() renders it as
JsNumber(tokens) == [kind |-> "number", obj |-> NoFields, str |-> tokens]
\* an object, with a function from its own keys to their values
JsObject(fields) == [kind |-> "object", obj |-> fields, str |-> <<>>]

typeOf(v) == IF v.kind = "null" THEN "object" ELSE v.kind

truthy(v) ==
    CASE v.kind = "string" -> v.str # <<>>
      [] v.kind = "number" -> v.str # <<"0">>
      [] v.kind = "object" -> TRUE
      [] OTHER -> FALSE

\* a || b
OrElse(a, b) == IF truthy(a) THEN a ELSE b

\* String(v)
String(v) ==
    CASE v.kind = "string" -> v.str
      [] v.kind = "number" -> v.str
      [] v.kind = "object" -> <<"[object Object]">>
      [] v.kind = "null" -> <<"null">>
      [] OTHER -> <<"undefined">>

\* o.key: undefined when o has no such key (or is no object)
Prop(o, key) == IF key \in DOMAIN o.obj THEN o.obj[key] ELSE JsUndefined

EmptyString == JsString(<<>>)
UNKNOWN_GAME == JsString(<<"Unknown Game">>)

gameId(gameRecord, random) ==
    String(OrElse(Prop(gameRecord, "id"),
           OrElse(Prop(gameRecord, "platformId"),
           OrElse(Prop(gameRecord, "slug"), random))))

gameName(gameRecord) ==
    String(OrElse(Prop(gameRecord, "name"),
           OrElse(Prop(gameRecord, "gameText"),
           OrElse(Prop(gameRecord, "title"), UNKNOWN_GAME))))

\* lines 349-362: the thumbnail field, a string or an object
fromThumbnail(gameRecord) ==
    LET t == Prop(gameRecord, "thumbnail")
    IN IF typeOf(t) = "string" /\ truthy(t) THEN t.str
       ELSE IF truthy(t) /\ typeOf(t) = "object"
            THEN String(OrElse(Prop(t, "url"), OrElse(Prop(t, "original"),
                        OrElse(Prop(t, "small"), OrElse(Prop(t, "thumbnail"),
                        EmptyString)))))
            ELSE <<>>

\* lines 366-402: the image field, a string or a nested object
fromImage(gameRecord) ==
    LET image == Prop(gameRecord, "image")
        original == Prop(image, "original")
        small == Prop(image, "small")
        thumbnail == Prop(image, "thumbnail")
        nested(o, own) ==
            String(OrElse(Prop(o, "url"), OrElse(Prop(o, "src"),
                   OrElse(Prop(o, own), EmptyString))))
    IN IF typeOf(image) = "string" THEN image.str
       ELSE IF truthy(image) /\ typeOf(image) = "object"
       THEN CASE truthy(original) /\ typeOf(original) = "object" ->
                   nested(original, "original")
              [] ~(truthy(original) /\ typeOf(original) = "object")
                 /\ typeOf(original) = "string" -> original.str
              [] OTHER ->
                 CASE truthy(small) /\ typeOf(small) = "object" ->
                        nested(small, "small")
                   [] ~(truthy(small) /\ typeOf(small) = "object")
                      /\ typeOf(small) = "string" -> small.str
                   [] OTHER ->
                      CASE truthy(thumbnail) /\ typeOf(thumbnail) = "object" ->
                             nested(thumbnail, "thumbnail")
                        [] ~(truthy(thumbnail) /\ typeOf(thumbnail) = "object")
                           /\ typeOf(thumbnail) = "string" -> thumbnail.str
                        [] OTHER ->
                           String(OrElse(Prop(image, "url"),
                                  OrElse(Prop(image, "src"),
                                  OrElse(Prop(image, "original"),
                                  OrElse(Prop(image, "small"),
                                  OrElse(Prop(image, "thumbnail"),
                                  EmptyString))))))
       ELSE <<>>

\* lines 406-412: providerLogo.original.src as the last resort
fromProviderLogo(gameRecord) ==
    LET providerLogo == Prop(gameRecord, "providerLogo")
        original == Prop(providerLogo, "original")
    IN IF truthy(providerLogo) /\ typeOf(providerLogo) = "object"
          /\ truthy(original) /\ typeOf(original) = "object"
       THEN String(OrElse(Prop(original, "src"),
                   OrElse(Prop(original, "url"), EmptyString)))
       ELSE <<>>

isValidUrlString(tokens) ==
    tokens = <<>> \/ startsWith(tokens, <<"http">>) \/ startsWith(tokens, SLASH)

keepAnyThumbnail(tokens) == tokens

\* lines 415-422: a thumbnail that starts with neither http nor / is cleared
validThumbnail(tokens) == IF isValidUrlString(tokens) THEN tokens ELSE <<>>

gameThumbnail(gameRecord) ==
    LET t1 == fromThumbnail(gameRecord)
        t2 == IF t1 = <<>> THEN fromImage(gameRecord) ELSE t1
        t3 == IF t2 = <<>> THEN fromProviderLogo(gameRecord) ELSE t2
    IN validThumbnail(t3)

gameProvider(gameRecord) ==
    IF typeOf(Prop(gameRecord, "provider")) = "string"
    THEN Prop(gameRecord, "provider")
    ELSE IF typeOf(Prop(gameRecord, "providerName")) = "string"
         THEN Prop(gameRecord, "providerName")
         ELSE JsUndefined

\* the callback of games.map: { id, name, thumbnail, provider, ...restGame }
mapGame(gameRecord, random) ==
    LET restKeys == DOMAIN gameRecord.obj \ {"image", "thumbnail"}
        own == [k \in {"id", "name", "thumbnail", "provider"} |->
                  CASE k = "id" -> JsString(gameId(gameRecord, random))
                    [] k = "name" -> JsString(gameName(gameRecord))
                    [] k = "thumbnail" -> JsString(gameThumbnail(gameRecord))
                    [] OTHER -> gameProvider(gameRecord)]
    IN JsObject([k \in DOMAIN own \cup restKeys |->
                    IF k \in restKeys THEN gameRecord.obj[k] ELSE own[k]])

-----------------------------------------------------------------------------
(* utils/cache.ts: RateLimiter *)

ClientKeys == {"10.0.0.1", "unknown"}

NoRecord == [count |-> 0, resetTime |-> -1]      \* requests.get(key) is undefined
NoCall == [key |-> NONE, allowed |-> FALSE, at |-> 0]

\* new RateLimiter(maxRequests, windowMs), with the clock at 0.  opened and
\* granted keep, for each key, when its window was created and how many calls
\* have returned true since; last is the latest call of isAllowed.
RateLimiter(maxRequests, windowMs) ==
    [maxRequests |-> maxRequests, windowMs |-> windowMs, now |-> 0,
     requests |-> [k \in ClientKeys |-> NoRecord],
     opened |-> [k \in ClientKeys |-> 0],
     granted |-> [k \in ClientKeys |-> 0],
     last |-> NoCall]

\* !record || now > record.resetTime
needsNewWindow(l, key) ==
    l.requests[key] = NoRecord \/ l.now > l.requests[key].resetTime

isWindowFullOffByOne(l, key) == l.requests[key].count > l.maxRequests

\* record.count >= this.maxRequests
isWindowFull(l, key) == l.requests[key].count >= l.maxRequests

\* getRemaining(key)
getRemaining(l, key) ==
    IF needsNewWindow(l, key) THEN l.maxRequests
    ELSE IF l.maxRequests - l.requests[key].count > 0
         THEN l.maxRequests - l.requests[key].count ELSE 0

-----------------------------------------------------------------------------
(* gamesSlice: state, action creators, reducer *)

initialState ==
    [items |-> <<>>, loading |-> FALSE, error |-> NULL, searchQuery |-> <<>>,
     pageNumber |-> 1, pageSize |-> 10, totalCount |-> 0]

setSearchQuery(query) == [type |-> "SET_SEARCH_QUERY", payload |-> query]
setPageNumber(n) == [type |-> "SET_PAGE_NUMBER", payload |-> n]
setPageSize(n) == [type |-> "SET_PAGE_SIZE", payload |-> n]
increasePageSize(inc) == [type |-> "INCREASE_PAGE_SIZE", payload |-> inc]
clearGames == [type |-> "CLEAR_GAMES", payload |-> NONE]
clearError == [type |-> "CLEAR_ERROR", payload |-> NONE]

DefaultIncrement == 20

reduceSetSearchQueryKeepItems(state, query) ==
    [state EXCEPT !.searchQuery = query, !.pageNumber = 1]

reduceSetSearchQuery(state, query) ==
    [state EXCEPT !.searchQuery = query, !.pageNumber = 1, !.items = <<>>]

reduceFetchGamesFulfilled(state, p) ==
    [state EXCEPT !.loading = FALSE,
                  !.items = p.games,
                  !.totalCount = OrNum(p.totalCount, 0),
                  !.pageNumber = OrNum(p.pageNumber, state.pageNumber),
                  !.pageSize = OrNum(p.pageSize, state.pageSize)]

reduceRejectedClearItems(state, message) ==
    [state EXCEPT !.loading = FALSE, !.error = message, !.items = <<>>]

reduceRejected(state, message) ==
    [state EXCEPT !.loading = FALSE, !.error = message]

reduceByCategoryFulfilledKeepLoaded(state, p) ==
    IF state.items # <<>> THEN [state EXCEPT !.loading = FALSE]
    ELSE [state EXCEPT !.loading = FALSE, !.items = p.games,
                       !.totalCount = OrNum(p.totalCount, Len(p.games)),
                       !.pageNumber = 1]

reduceByCategoryFulfilled(state, p) ==
    [state EXCEPT !.loading = FALSE,
                  !.items = p.games,
                  !.totalCount = OrNum(p.totalCount, Len(p.games)),
                  !.pageNumber = 1,
                  !.pageSize = OrNum(p.requestedPageSize, state.pageSize)]

gamesReducer(state, action) ==
    CASE action.type = "SET_SEARCH_QUERY" ->
           reduceSetSearchQuery(state, action.payload)
      [] action.type = "SET_PAGE_NUMBER" ->
           [state EXCEPT !.pageNumber = action.payload]
      [] action.type = "SET_PAGE_SIZE" ->
           [state EXCEPT !.pageSize = action.payload, !.pageNumber = 1]
      [] action.type = "INCREASE_PAGE_SIZE" ->
           [state EXCEPT !.pageSize =
                state.pageSize + OrNum(action.payload, DefaultIncrement)]
      [] action.type = "CLEAR_GAMES" ->
           [state EXCEPT !.items = <<>>, !.totalCount = 0]
      [] action.type = "CLEAR_ERROR" ->
           [state EXCEPT !.error = NULL]
      [] action.type \in {"FETCH_GAMES_PENDING", "FETCH_GAMES_BY_CATEGORY_PENDING"} ->
           [state EXCEPT !.loading = TRUE, !.error = NULL]
      [] action.type = "FETCH_GAMES_FULFILLED" ->
           reduceFetchGamesFulfilled(state, action.payload)
      [] action.type \in {"FETCH_GAMES_REJECTED", "FETCH_GAMES_BY_CATEGORY_REJECTED"} ->
           reduceRejected(state, action.payload)
      [] action.type = "FETCH_GAMES_BY_CATEGORY_FULFILLED" ->
           reduceByCategoryFulfilled(state, action.payload)
      [] OTHER -> state

reduceByCategoryFulfilledAppendOnEqual(state, p) ==
    [state EXCEPT !.loading = FALSE,
                  !.items = IF p.requestedPageSize >= state.pageSize
                            THEN state.items \o SelectSeq(p.games, LAMBDA g :
                                     \A i \in 1..Len(state.items) : state.items[i].id # g.id)
                            ELSE p.games,
                  !.totalCount = OrNum(p.totalCount, 0),
                  !.pageNumber = OrNum(p.pageNumber, state.pageNumber),
                  !.pageSize = p.requestedPageSize]

\* part_009: the reducer of the earlier gamesSlice, which appends on a
\* size-increasing fetch
reduceByCategoryFulfilled009(state, p) ==
    LET newGames == p.games
        isIncreasingPageSize == p.requestedPageSize > state.pageSize
        existingIds == {state.items[i].id : i \in 1..Len(state.items)}
        uniqueNewGames == SelectSeq(newGames, LAMBDA g : g.id \notin existingIds)
        updatedItems == IF isIncreasingPageSize
                        THEN state.items \o uniqueNewGames
                        ELSE newGames
    IN [state EXCEPT !.loading = FALSE,
                     !.items = updatedItems,
                     !.totalCount = OrNum(p.totalCount, 0),
                     !.pageNumber = OrNum(p.pageNumber, state.pageNumber),
                     !.pageSize = p.requestedPageSize]

gamesReducer009(state, action) ==
    IF action.type = "FETCH_GAMES_BY_CATEGORY_FULFILLED"
    THEN reduceByCategoryFulfilled009(state, action.payload)
    ELSE gamesReducer(state, action)

-----------------------------------------------------------------------------
(* selectors: the pagination projector *)

toLowerCase(s) ==
    [i \in 1..Len(s) |->
        CASE s[i] = "A" -> "a"
          [] s[i] = "B" -> "b"
          [] OTHER -> s[i]]

RECURSIVE trimStart(_)
trimStart(s) == IF s # <<>> /\ Head(s) = " " THEN trimStart(Tail(s)) ELSE s

RECURSIVE trimEnd(_)
trimEnd(s) ==
    IF s # <<>> /\ s[Len(s)] = " " THEN trimEnd(SubSeq(s, 1, Len(s) - 1)) ELSE s

trim(s) == trimEnd(trimStart(s))

\* Array.prototype.slice(start, end)
slice(s, start, end) ==
    LET rel(x) == IF x < 0 THEN (IF Len(s) + x < 0 THEN 0 ELSE Len(s) + x)
                  ELSE (IF x > Len(s) THEN Len(s) ELSE x)
    IN SubSeq(s, rel(start) + 1, rel(end))

\* Math.ceil(a / b) for a >= 0 and b >= 1; pageSize is positive in every
\* state of the store
ceilDiv(a, b) == (a + b - 1) \div b

selectGamesWithPagination(state) ==
    LET searchQuery == state.searchQuery
        pageSize == state.pageSize
        pageNumber == state.pageNumber
        hasSearch == searchQuery # <<>> /\ Len(trim(searchQuery)) > 0
        query == toLowerCase(trim(searchQuery))
        filteredGames ==
            IF hasSearch
            THEN SelectSeq(state.items, LAMBDA game : includes(toLowerCase(game.name), query))
            ELSE state.items
        filteredTotalCount == IF hasSearch THEN Len(filteredGames) ELSE state.totalCount
        shouldUseClientPagination == Len(filteredGames) > pageSize
        startIndex == (pageNumber - 1) * pageSize
        endIndex == startIndex + pageSize
    IN [games |-> IF shouldUseClientPagination
                  THEN slice(filteredGames, startIndex, endIndex)
                  ELSE filteredGames,
        totalCount |-> filteredTotalCount,
        pageSize |-> pageSize,
        pageNumber |-> pageNumber,
        hasMore |-> IF shouldUseClientPagination
                    THEN pageNumber * pageSize < filteredTotalCount
                    ELSE pageNumber * pageSize < state.totalCount,
        totalPages |-> OrNum(ceilDiv(filteredTotalCount, pageSize), 1)]

-----------------------------------------------------------------------------
(* gamesSlice: the thunk fetchGamesByCategory, up to its call of the service *)

OrStr(a, b) == IF a = <<>> THEN b ELSE a

\* lines 208-237: the parameters handed to fetchCategoryGames.  params.search
\* is a string or undefined; both an empty string and undefined are falsy and
\* are written <<>> here.
thunkFetchParams(getPageUrl, params, currentState) ==
    LET searchQuery == OrStr(params.search, OrStr(currentState.searchQuery, <<>>))
        hasSearch == Len(trim(searchQuery)) > 0
        basePageSize == OrNum(params.pageSize, OrNum(currentState.pageSize, 10))
        fetchPageSize == IF hasSearch /\ ~supportsSearch(getPageUrl) THEN 200 ELSE basePageSize
    IN [pageNumber |-> OrNum(params.pageNumber, OrNum(currentState.pageNumber, 1)),
        pageSize |-> fetchPageSize,
        search |-> IF hasSearch /\ supportsSearch(getPageUrl) THEN searchQuery ELSE <<>>,
        requestedPageSize |-> basePageSize]

byCategoryPending == [type |-> "FETCH_GAMES_BY_CATEGORY_PENDING", payload |-> NONE]

\* services/api.ts lines 194-245: the query string fetchCategoryGames sends to
\* /api/games.  keys are the parameters present; an absent number reads 0.
serviceSearchParams(getPageUrl, params) ==
    LET categoryPath == resolveCategoryPath(getPageUrl)
        paged == supportsPagination(categoryPath)
    IN [keys |-> {"category"}
                 \cup (IF params.search # <<>> THEN {"search"} ELSE {})
                 \cup (IF paged THEN {"pageNumber", "pageSize"} ELSE {}),
        category |-> categoryPath,
        search |-> params.search,
        pageNumber |-> IF paged THEN params.pageNumber ELSE 0,
        pageSize |-> IF paged THEN params.pageSize ELSE 0]

\* app/api/games/route.ts lines 84-87
routeSupportsPagination(query) ==
    \/ "category" \notin query.keys
    \/ query.category = <<>>
    \/ includes(query.category, EN_GAMES_TILES)
    \/ query.category = CASINO
    \/ query.category = PAGES_EN_CASINO

\* app/api/games/route.ts lines 62-107: the upstream path and query the
\* proxy builds from the query it received
routeUpstreamRequest(query) ==
    LET hasCategory == "category" \in query.keys /\ query.category # <<>>
        isPath == hasCategory /\ startsWith(query.category, SLASH)
        paged == routeSupportsPagination(query)
        hasPageNumber == paged /\ "pageNumber" \in query.keys
        hasPageSize == paged /\ "pageSize" \in query.keys
    IN [path |-> IF isPath THEN query.category ELSE EN_GAMES_TILES,
        keys |-> (IF "search" \in query.keys /\ query.search # <<>> THEN {"search"} ELSE {})
                 \cup (IF hasPageNumber THEN {"pageNumber"} ELSE {})
                 \cup (IF hasPageSize THEN {"pageSize"} ELSE {})
                 \cup (IF hasCategory /\ ~isPath THEN {"category"} ELSE {}),
        search |-> IF "search" \in query.keys THEN query.search ELSE <<>>,
        pageNumber |-> IF hasPageNumber THEN query.pageNumber ELSE 0,
        pageSize |-> IF hasPageSize THEN query.pageSize ELSE 0]

\* lines 205-240: one invocation of the thunk dispatches PENDING, reads the
\* state and calls the service; the store and the component's record after it.
\* origin names the call site in GamesList.
thunkStart(g, f, origin, getPageUrl, params) ==
    LET pending == gamesReducer(g, byCategoryPending)
        trigger == [getPageUrl |-> getPageUrl, search |-> params.search,
                    pageNumber |-> params.pageNumber, pageSize |-> params.pageSize]
        request == [trigger |-> Len(f.triggers) + 1, origin |-> origin,
                    getPageUrl |-> getPageUrl,
                    params |-> thunkFetchParams(getPageUrl, params, pending)]
    IN [games |-> pending,
        fetch |-> [f EXCEPT !.triggers = Append(@, trigger),
                            !.requests = Append(@, request),
                            !.inflight = @ \cup {Len(f.requests) + 1}]]

\* services/api.ts lines 441-453: what fetchCategoryGames resolves with
serviceResponse(request, mappedGames, total) ==
    [games |-> mappedGames,
     totalCount |-> OrNum(OrNum(total, Len(mappedGames)), Len(mappedGames)),
     pageNumber |-> OrNum(request.params.pageNumber, 1),
     pageSize |-> OrNum(request.params.pageSize, 10)]

byCategoryFulfilledFetchSize(request, response) ==
    [type |-> "FETCH_GAMES_BY_CATEGORY_FULFILLED",
     payload |-> [games |-> response.games,
                  totalCount |-> OrNum(response.totalCount, 0),
                  pageNumber |-> OrNum(response.pageNumber, request.params.pageNumber),
                  pageSize |-> OrNum(response.pageSize, request.params.pageSize),
                  requestedPageSize |-> request.params.pageSize]]

\* lines 242-251: the action the thunk dispatches for a response
byCategoryFulfilled(request, response) ==
    [type |-> "FETCH_GAMES_BY_CATEGORY_FULFILLED",
     payload |-> [games |-> response.games,
                  totalCount |-> OrNum(response.totalCount, 0),
                  pageNumber |-> OrNum(response.pageNumber, request.params.pageNumber),
                  pageSize |-> OrNum(response.pageSize, request.params.pageSize),
                  requestedPageSize |-> request.params.requestedPageSize]]

\* part_010 lines 49-63 and 137-140: the thunk of the createSlice revision
\* hands the caller's params to the service and resolves with the response;
\* its reducer takes the requested page size from the thunk's argument
byCategoryFulfilled010(state, trigger, mappedGames, total) ==
    LET response == serviceResponse([params |-> trigger], mappedGames, total)
    IN [type |-> "FETCH_GAMES_BY_CATEGORY_FULFILLED",
        payload |-> [games |-> response.games,
                     totalCount |-> response.totalCount,
                     pageNumber |-> response.pageNumber,
                     pageSize |-> response.pageSize,
                     requestedPageSize |-> OrNum(trigger.pageSize, state.pageSize)]]

\* lines 252-257
byCategoryRejected(message) ==
    [type |-> "FETCH_GAMES_BY_CATEGORY_REJECTED", payload |-> message]

-----------------------------------------------------------------------------
(* categoriesSlice: state, action creators, reducer *)

\* A getPage reference is a sequence of tokens standing for its characters.
Category(id, page) == [id |-> id, name |-> id, getPage |-> page]

NullCategory == Category("null", <<>>)      \* selectedCategory: null

Categories ==
    {Category("lobby", <<"/", "casino">>),
     Category("new", <<"/", "pages", "/", "en", "/", "casino", "/", "new-games">>),
     Category("slug", <<"casino">>)}

MaxCats == 2         \* longest category list a config response carries

CategoryLists == SeqsUpTo(Categories, MaxCats)

initialCategoriesState ==
    [items |-> <<>>, selectedCategory |-> NullCategory, loading |-> FALSE,
     error |-> NULL]

setCategories(list) == [type |-> "SET_CATEGORIES", payload |-> list]
setSelectedCategory(c) == [type |-> "SET_SELECTED_CATEGORY", payload |-> c]

autoSelectAlways(state, list) ==
    IF Len(list) > 0 THEN list[1] ELSE state.selectedCategory

autoSelect(state, list) ==
    IF Len(list) > 0 /\ state.selectedCategory = NullCategory
    THEN list[1]
    ELSE state.selectedCategory

categoriesReducer(state, action) ==
    CASE action.type = "SET_CATEGORIES" ->
           [state EXCEPT !.items = action.payload,
                         !.selectedCategory = autoSelect(state, action.payload)]
      [] action.type = "SET_SELECTED_CATEGORY" ->
           [state EXCEPT !.selectedCategory = action.payload]
      [] action.type = "CLEAR_ERROR" ->
           [state EXCEPT !.error = NULL]
      [] action.type = "FETCH_CATEGORIES_PENDING" ->
           [state EXCEPT !.loading = TRUE, !.error = NULL]
      [] action.type = "FETCH_CATEGORIES_FULFILLED" ->
           [state EXCEPT !.loading = FALSE,
                         !.items = action.payload,
                         !.selectedCategory = autoSelect(state, action.payload)]
      [] action.type = "FETCH_CATEGORIES_REJECTED" ->
           [state EXCEPT !.loading = FALSE, !.error = action.payload]
      [] OTHER -> state

-----------------------------------------------------------------------------
(* utils/retry.ts: retryWithBackoff *)

MaxRetries == 3      \* largest maxRetries option tried

Min(a, b) == IF a < b THEN a ELSE b

\* the error thrown by the k-th invocation of fn, the value it returns
ErrorOf(k) == [message |-> "failure", call |-> k]
ValueOf(k) == [value |-> "response", call |-> k]
UnknownError == [message |-> "Unknown error", call |-> 0]
NoError == [message |-> NULL, call |-> 0]      \* null
NoValue == [value |-> NULL, call |-> 0]        \* a promise not resolved

\* the state of a call retryWithBackoff(fn, options) before its first attempt
RetryCall(maxRetries, initialDelay, maxDelay) ==
    [maxRetries |-> maxRetries, initialDelay |-> initialDelay,
     maxDelay |-> maxDelay,
     pc |-> "loop",          \* loop | waiting | resolved | rejected
     attempt |-> 0,          \* the loop variable
     calls |-> 0,            \* invocations of fn so far
     failures |-> 0,         \* invocations of fn that threw
     lastError |-> NoError,  \* let lastError: Error | null = null
     result |-> NoValue,     \* the value the promise resolved with
     thrown |-> NoError,     \* the error the promise rejected with
     waits |-> <<>>,         \* the delays waited, in order
     onRetry |-> <<>>]       \* the arguments onRetry was called with

isLastAttemptEarly(r) == r.attempt = r.maxRetries - 1

isLastAttempt(r) == r.attempt = r.maxRetries

backoffDelayUncapped(r) == r.initialDelay * 2 ^ r.attempt

backoffDelay(r) == Min(r.initialDelay * 2 ^ r.attempt, r.maxDelay)

\* fn() resolves: return await fn()
FnResolves ==
    /\ retry.pc = "loop"
    /\ retry.attempt <= retry.maxRetries
    /\ retry' = [retry EXCEPT !.calls = @ + 1,
                              !.result = ValueOf(retry.calls + 1),
                              !.pc = "resolved"]
    /\ UNCHANGED notRetry

\* fn() throws: the catch block
FnRejects ==
    /\ retry.pc = "loop"
    /\ retry.attempt <= retry.maxRetries
    /\ LET err == ErrorOf(retry.calls + 1)
           r1 == [retry EXCEPT !.calls = @ + 1, !.failures = @ + 1,
                               !.lastError = err]
       IN retry' =
            IF isLastAttempt(r1)
            THEN [r1 EXCEPT !.thrown = err, !.pc = "rejected"]
            ELSE [r1 EXCEPT !.onRetry = Append(@, <<r1.attempt + 1, err>>),
                            !.waits = Append(@, backoffDelay(r1)),
                            !.pc = "waiting"]
    /\ UNCHANGED notRetry

\* the setTimeout of the wait fires: the next iteration
TimerFires ==
    /\ retry.pc = "waiting"
    /\ retry' = [retry EXCEPT !.attempt = @ + 1, !.pc = "loop"]
    /\ UNCHANGED notRetry

\* the loop ends without an attempt left: throw lastError || new Error(...)
LoopExit ==
    /\ retry.pc = "loop"
    /\ retry.attempt > retry.maxRetries
    /\ retry' = [retry EXCEPT
                   !.thrown = IF retry.lastError = NoError THEN UnknownError
                              ELSE retry.lastError,
                   !.pc = "rejected"]
    /\ UNCHANGED notRetry

NextRetry == FnResolves \/ FnRejects \/ TimerFires \/ LoopExit

-----------------------------------------------------------------------------
(* The store: every action a component or thunk can dispatch, handled by   *)
(* the reducers.                                                           *)

NoClassification ==
    [ref |-> <<>>, pc |-> "idle", supportsSearch |-> FALSE, path |-> <<>>,
     categoryPath |-> <<>>, supportsPagination |-> FALSE]

NoMapping ==
    [raw |-> JsUndefined, pc |-> "idle", once |-> JsUndefined, twice |-> JsUndefined]

\* the limiter of utils/cache.ts before its first call
NoLimiter == RateLimiter(100, 60000)
NoConfig == [pc |-> "idle", data |-> [shape |-> "other", items |-> <<>>], categories |-> <<>>]
\* SearchBar as mounted over an empty search: the input and the debounced text
\* are the store's text, useDebounce's first timer is pending
NoBar == [localQuery |-> <<>>, debouncedQuery |-> <<>>, timer |-> TRUE,
          effectDue |-> FALSE, cleared |-> FALSE, tracked |-> <<>>]
\* keys and responses of the proxy routes' cache, in short
CacheKeys == {"games:all", "config"}
CacheValues == {"v1", "v2"}
NoEntry == [data |-> NULL, timestamp |-> -1, ttl |-> 0]   \* cache.get(key) is undefined
NoCacheCall == [op |-> NONE, key |-> NONE, data |-> NULL, found |-> FALSE]
\* new SimpleCache(), with the clock at 0.  written keeps, for each key, the
\* last set(key, ...) that no delete(key) or clear() followed; last is the
\* last call and what it returned
NoCache == [now |-> 0,
            cache |-> [k \in CacheKeys |-> NoEntry],
            written |-> [k \in CacheKeys |-> NoEntry],
            last |-> NoCacheCall]
\* args are the params the caller passed and read the page size of the state
\* getState() returned
NoThunk == [pc |-> "idle", getPageUrl |-> <<>>,
            params |-> [pageNumber |-> 0, pageSize |-> 0, search |-> <<>>, requestedPageSize |-> 0],
            dispatched |-> <<>>,
            args |-> [search |-> <<>>, pageNumber |-> 0, pageSize |-> 0],
            read |-> 0]

\* GamesList not mounted, nothing requested
NoFetch ==
    [lobby |-> FALSE, mounted |-> FALSE, strict |-> FALSE,
     deps |-> [selectedCategory |-> NullCategory, searchQuery |-> <<>>],
     triggers |-> <<>>, requests |-> <<>>, inflight |-> {}, settled |-> <<>>,
     retries |-> 0]

NoAction == [type |-> "@@INIT", payload |-> NONE]

InitStore ==
    /\ games = initialState
    /\ lastAction = NoAction
    /\ categories = initialCategoriesState
    /\ lastCatAction = NoAction
    /\ retry = RetryCall(3, 1000, 10000)
    /\ cls = NoClassification
    /\ norm = NoMapping
    /\ fetch = NoFetch
    /\ limiter = NoLimiter
    /\ config = NoConfig
    /\ bar = NoBar
    /\ cache = NoCache
    /\ thunk = NoThunk

\* payloads of FETCH_GAMES_FULFILLED
TilesPayloads ==
    [games : GameLists, totalCount : TotalCounts, pageNumber : {0, 2},
     pageSize : {0, 2}]

\* payloads of FETCH_GAMES_BY_CATEGORY_FULFILLED
CategoryPayloads ==
    [games : GameLists, totalCount : TotalCounts, pageNumber : {0, 2},
     pageSize : {2}, requestedPageSize : PageSizes]

SetSearchQuery ==
    \E q \in SearchTexts :
        /\ games' = gamesReducer(games, setSearchQuery(q))
        /\ lastAction' = setSearchQuery(q)
        /\ UNCHANGED notGames

SetPageNumber ==
    \E n \in PageNumbers :
        /\ games' = gamesReducer(games, setPageNumber(n))
        /\ lastAction' = setPageNumber(n)
        /\ UNCHANGED notGames

SetPageSize ==
    \E n \in PageSizes \ {0} :
        /\ games' = gamesReducer(games, setPageSize(n))
        /\ lastAction' = setPageSize(n)
        /\ UNCHANGED notGames

IncreasePageSize ==
    \E inc \in Increments :
        /\ games.pageSize + OrNum(inc, DefaultIncrement) <= MaxPageSize
        /\ games' = gamesReducer(games, increasePageSize(inc))
        /\ lastAction' = increasePageSize(inc)
        /\ UNCHANGED notGames

ClearGames ==
    /\ games' = gamesReducer(games, clearGames)
    /\ lastAction' = clearGames
    /\ UNCHANGED notGames

ClearError ==
    /\ games' = gamesReducer(games, clearError)
    /\ lastAction' = clearError
    /\ UNCHANGED notGames

FetchGamesPending ==
    LET a == [type |-> "FETCH_GAMES_PENDING", payload |-> NONE]
    IN /\ games' = gamesReducer(games, a)
       /\ lastAction' = a
       /\ UNCHANGED notGames

FetchGamesFulfilled ==
    \E p \in TilesPayloads :
        LET a == [type |-> "FETCH_GAMES_FULFILLED", payload |-> p]
        IN /\ games' = gamesReducer(games, a)
           /\ lastAction' = a
           /\ UNCHANGED notGames

FetchGamesRejected ==
    \E m \in Messages :
        LET a == [type |-> "FETCH_GAMES_REJECTED", payload |-> m]
        IN /\ games' = gamesReducer(games, a)
           /\ lastAction' = a
           /\ UNCHANGED notGames

FetchGamesByCategoryPending ==
    LET a == [type |-> "FETCH_GAMES_BY_CATEGORY_PENDING", payload |-> NONE]
    IN /\ games' = gamesReducer(games, a)
       /\ lastAction' = a
       /\ UNCHANGED notGames

FetchGamesByCategoryFulfilled ==
    \E p \in CategoryPayloads :
        LET a == [type |-> "FETCH_GAMES_BY_CATEGORY_FULFILLED", payload |-> p]
        IN /\ games' = gamesReducer(games, a)
           /\ lastAction' = a
           /\ UNCHANGED notGames

\* the same dispatch handled by the reducer of part_009
FetchGamesByCategoryFulfilled009 ==
    \E p \in CategoryPayloads :
        LET a == [type |-> "FETCH_GAMES_BY_CATEGORY_FULFILLED", payload |-> p]
        IN /\ games' = gamesReducer009(games, a)
           /\ lastAction' = a
           /\ UNCHANGED notGames

FetchGamesByCategoryRejected ==
    \E m \in Messages :
        LET a == [type |-> "FETCH_GAMES_BY_CATEGORY_REJECTED", payload |-> m]
        IN /\ games' = gamesReducer(games, a)
           /\ lastAction' = a
           /\ UNCHANGED notGames

MaxPage == 3     \* last page reached when the page count is not finite

\* Pagination.tsx: a click on a page button, on Previous or on Next.  The
\* component renders nothing for a single page.  Math.ceil(totalCount / 0) is
\* Infinity for a positive totalCount and NaN for 0.
HandlePageChange ==
    /\ LET totalPages == IF games.pageSize = 0
                         THEN (IF games.totalCount > 0 THEN MaxPage ELSE 0)
                         ELSE ceilDiv(games.totalCount, games.pageSize)
       IN /\ ~(totalPages <= 1 \/ games.totalCount = 0)
          /\ \E newPage \in ((games.pageNumber - 1)..(games.pageNumber + 1)) \cup (1..totalPages) :
                /\ newPage >= 1 /\ newPage <= totalPages /\ newPage # games.pageNumber
                /\ games' = gamesReducer(games, setPageNumber(newPage))
                /\ lastAction' = setPageNumber(newPage)
    /\ UNCHANGED notGames

NextGamesCommon ==
    \/ HandlePageChange
    \/ SetSearchQuery
    \/ SetPageNumber
    \/ SetPageSize
    \/ IncreasePageSize
    \/ ClearGames
    \/ ClearError
    \/ FetchGamesPending
    \/ FetchGamesFulfilled
    \/ FetchGamesRejected
    \/ FetchGamesByCategoryPending
    \/ FetchGamesByCategoryRejected

NextGames == NextGamesCommon \/ FetchGamesByCategoryFulfilled

NextGames009 == NextGamesCommon \/ FetchGamesByCategoryFulfilled009

\* the games reducer of store/slices/gamesSlice.ts under every dispatch
SpecGames == InitStore /\ [][NextGames]_vars

\* the games reducer of part_009 (append on load more) under every dispatch
SpecGames009 == InitStore /\ [][NextGames009]_vars

-----------------------------------------------------------------------------
(* The categories reducer under every dispatch *)

CategoryOrNull == Categories \cup {NullCategory}

SetCategories ==
    \E list \in CategoryLists :
        /\ categories' = categoriesReducer(categories, setCategories(list))
        /\ lastCatAction' = setCategories(list)
        /\ UNCHANGED notCategories

SetSelectedCategory ==
    \E c \in CategoryOrNull :
        /\ categories' = categoriesReducer(categories, setSelectedCategory(c))
        /\ lastCatAction' = setSelectedCategory(c)
        /\ UNCHANGED notCategories

ClearCategoriesError ==
    LET a == [type |-> "CLEAR_ERROR", payload |-> NONE]
    IN /\ categories' = categoriesReducer(categories, a)
       /\ lastCatAction' = a
       /\ UNCHANGED notCategories

FetchCategoriesPending ==
    LET a == [type |-> "FETCH_CATEGORIES_PENDING", payload |-> NONE]
    IN /\ categories' = categoriesReducer(categories, a)
       /\ lastCatAction' = a
       /\ UNCHANGED notCategories

FetchCategoriesFulfilled ==
    \E list \in CategoryLists :
        LET a == [type |-> "FETCH_CATEGORIES_FULFILLED", payload |-> list]
        IN /\ categories' = categoriesReducer(categories, a)
           /\ lastCatAction' = a
           /\ UNCHANGED notCategories

FetchCategoriesRejected ==
    \E m \in Messages :
        LET a == [type |-> "FETCH_CATEGORIES_REJECTED", payload |-> m]
        IN /\ categories' = categoriesReducer(categories, a)
           /\ lastCatAction' = a
           /\ UNCHANGED notCategories

NextCategories ==
    \/ SetCategories
    \/ SetSelectedCategory
    \/ ClearCategoriesError
    \/ FetchCategoriesPending
    \/ FetchCategoriesFulfilled
    \/ FetchCategoriesRejected

SpecCategories == InitStore /\ [][NextCategories]_vars

-----------------------------------------------------------------------------
(* Claims about the reducers *)

RejectedTypes == {"FETCH_GAMES_REJECTED", "FETCH_GAMES_BY_CATEGORY_REJECTED"}

\* C1 (reset law): in the state that results from setSearchQuery(text) the
\* page number is 1, the search query is text and the items list is empty,
\* whatever the state before and whatever the text.
C1_ResetLaw ==
    lastAction.type = "SET_SEARCH_QUERY" =>
        /\ games.pageNumber = 1
        /\ games.searchQuery = lastAction.payload
        /\ games.items = <<>>

\* setSearchQuery has acted on a state that had loaded a total and was loading
C1_Witness ==
    /\ lastAction.type = "SET_SEARCH_QUERY"
    /\ lastAction.payload = <<"A">>
    /\ games.totalCount = 3
    /\ games.loading

HasDuplicateIds(items) ==
    \E i, j \in 1..Len(items) : i # j /\ items[i].id = items[j].id

\* C2 (dedup law): a category fetch success merged in append mode (requested
\* page size above the page size in state) leaves no two items with one id.
C2_DedupLaw ==
    [][(/\ lastAction'.type = "FETCH_GAMES_BY_CATEGORY_FULFILLED"
        /\ lastAction'.payload.requestedPageSize > games.pageSize)
       => ~HasDuplicateIds(games'.items)]_vars

C9_AutoSelect ==
    [][lastCatAction'.type \in {"SET_CATEGORIES", "FETCH_CATEGORIES_FULFILLED"} =>
         categories'.selectedCategory =
            IF categories.selectedCategory = NullCategory
               /\ Len(lastCatAction'.payload) > 0
            THEN lastCatAction'.payload[1]
            ELSE categories.selectedCategory]_vars

\* a non-empty list arrived while another category was already selected
C9_Witness ==
    /\ lastCatAction.type = "FETCH_CATEGORIES_FULFILLED"
    /\ Len(lastCatAction.payload) > 0
    /\ categories.selectedCategory # NullCategory
    /\ categories.selectedCategory # lastCatAction.payload[1]

\* C10 (fetch failure transition): a rejected action with message m leaves
\* loading false and error m, and items, totalCount, searchQuery, pageNumber
\* and pageSize as they were.
C10_RejectedFrame ==
    [][lastAction'.type \in RejectedTypes =>
         /\ games'.loading = FALSE
         /\ games'.error = lastAction'.payload
         /\ games'.items = games.items
         /\ games'.totalCount = games.totalCount
         /\ games'.searchQuery = games.searchQuery
         /\ games'.pageNumber = games.pageNumber
         /\ games'.pageSize = games.pageSize]_vars

\* a category fetch was rejected while items were on display
C10_Witness ==
    /\ lastAction.type = "FETCH_GAMES_BY_CATEGORY_REJECTED"
    /\ games.items # <<>>
    /\ games.error = "timeout"
    /\ games.pageNumber = 3

-----------------------------------------------------------------------------
(* retryWithBackoff under every option and every outcome of fn *)

InitRetry ==
    /\ games = initialState
    /\ lastAction = NoAction
    /\ categories = initialCategoriesState
    /\ lastCatAction = NoAction
    /\ \E m \in -1..MaxRetries, d \in {1000, 4000}, c \in {10000, 500} :
          retry = RetryCall(m, d, c)
    /\ cls = NoClassification
    /\ norm = NoMapping
    /\ fetch = NoFetch
    /\ limiter = NoLimiter
    /\ config = NoConfig
    /\ bar = NoBar
    /\ cache = NoCache
    /\ thunk = NoThunk

SpecRetry == InitRetry /\ [][NextRetry]_vars

\* C3 (retry outcome, maxRetries = 3): three failures and then a success
\* resolve with that success and no error reaches the caller; four failures
\* reject with the error of the fourth attempt, and fn is never called a
\* fifth time.
C3_RetryOutcome ==
    retry.maxRetries = 3 =>
        /\ retry.calls <= 4
        /\ (retry.failures = 3 /\ retry.calls = 4) =>
              /\ retry.pc = "resolved"
              /\ retry.result = ValueOf(4)
              /\ retry.thrown = NoError
        /\ retry.failures = 4 =>
              /\ retry.pc = "rejected"
              /\ retry.thrown = ErrorOf(4)
              /\ retry.result = NoValue
        /\ retry.pc = "rejected" => retry.failures = 4

\* fn settles and timers fire
SpecRetryFair == SpecRetry /\ WF_vars(NextRetry)

RetryBudget ==
    retry.maxRetries >= 0 =>
        /\ retry.calls <= retry.maxRetries + 1
        /\ retry.pc = "resolved" =>
              /\ retry.result = ValueOf(retry.calls)
              /\ retry.failures = retry.calls - 1
              /\ retry.thrown = NoError
        /\ retry.pc = "rejected" =>
              /\ retry.calls = retry.maxRetries + 1
              /\ retry.failures = retry.calls
              /\ retry.thrown = ErrorOf(retry.calls)
        /\ \A k \in 1..Len(retry.waits) :
              /\ k <= retry.maxRetries
              /\ retry.waits[k] = Min(retry.initialDelay * 2 ^ (k - 1), retry.maxDelay)
        /\ Len(retry.waits) =
              IF retry.pc = "rejected" THEN retry.failures - 1 ELSE retry.failures

C3_Witness ==
    /\ retry.maxRetries = 3
    /\ retry.pc = "resolved"
    /\ retry.failures = 3
    /\ retry.waits = <<1000, 2000, 4000>>

-----------------------------------------------------------------------------
(* One page reference classified by the thunk and by the service *)

Paths ==
    {<<"casino">>,
     <<"pages", "/", "en", "/", "casino">>,
     <<"en", "/", "games", "/", "tiles">>,
     <<"en", "/", "games", "/", "tiles", "?", "x=1">>,
     <<"pages", "/", "en", "/", "casino", "/", "new-games">>,
     <<"new-games">>,
     <<"casino", "/", "slots">>,
     <<"casino", "?", "x=1">>,
     <<>>}

\* root-relative paths, bare slugs and full URLs
PageRefs ==
    {SLASH \o p : p \in Paths}
      \cup (Paths \ {<<>>})
      \cup {<<scheme, "host">> \o SLASH \o p : scheme \in {"http://", "https://"}, p \in Paths}
      \cup {<<"https://", "host">>}

InitClassify ==
    /\ games = initialState
    /\ lastAction = NoAction
    /\ categories = initialCategoriesState
    /\ lastCatAction = NoAction
    /\ retry = RetryCall(3, 1000, 10000)
    /\ \E r \in PageRefs : cls = [NoClassification EXCEPT !.ref = r, !.pc = "thunk"]
    /\ norm = NoMapping
    /\ fetch = NoFetch
    /\ limiter = NoLimiter
    /\ config = NoConfig
    /\ bar = NoBar
    /\ cache = NoCache
    /\ thunk = NoThunk

\* fetchGamesByCategory computes supportsSearch
ThunkClassifies ==
    /\ cls.pc = "thunk"
    /\ cls' = [cls EXCEPT !.supportsSearch = supportsSearch(cls.ref),
                          !.pc = "extract"]
    /\ UNCHANGED notCls

\* fetchCategoryGames takes the path out of the reference
ServiceExtractsPath ==
    /\ cls.pc = "extract"
    /\ cls' = [cls EXCEPT !.path = extractPath(cls.ref), !.pc = "resolve"]
    /\ UNCHANGED notCls

\* fetchCategoryGames maps the path to the endpoint and decides on pagination
ServiceClassifies ==
    /\ cls.pc = "resolve"
    /\ cls' = [cls EXCEPT
                 !.categoryPath = resolveCategoryPath(cls.ref),
                 !.supportsPagination = supportsPagination(resolveCategoryPath(cls.ref)),
                 !.pc = "done"]
    /\ UNCHANGED notCls

NextClassify == ThunkClassifies \/ ServiceExtractsPath \/ ServiceClassifies

SpecClassify == InitClassify /\ [][NextClassify]_vars

\* the all-games listing endpoint and its aliases
IsAllGamesPath(path) == path \in {EN_GAMES_TILES, CASINO, PAGES_EN_CASINO}

\* C6 (endpoint classification): for every page reference supportsSearch and
\* supportsPagination are both true when the path the reference resolves to
\* is /en/games/tiles, /casino or /pages/en/casino, both false otherwise, and
\* so never differ.
C6_Classification ==
    cls.pc = "done" =>
        /\ cls.supportsSearch = cls.supportsPagination
        /\ cls.supportsSearch = IsAllGamesPath(cls.path)

-----------------------------------------------------------------------------
(* One raw game object mapped, and its record mapped again *)

URL_HTTP == <<"http", "s://cdn/a.png">>
URL_ROOT == <<"/", "img/a.png">>
URL_LOGO == <<"http", "s://cdn/logo.png">>
NOT_A_URL == <<"not-a-url">>

ABSENT == [kind |-> "absent", obj |-> NoFields, str |-> <<>>]

One(key, v) == JsObject(key :> v)

ThumbnailValues ==
    {ABSENT, JsNull, EmptyString, JsString(URL_HTTP), JsString(NOT_A_URL),
     JsNumber(<<"7">>),
     One("url", JsString(URL_ROOT)), One("url", JsString(NOT_A_URL)),
     One("original", One("url", JsString(URL_HTTP))),
     One("small", JsString(URL_HTTP))}

ImageValues ==
    {ABSENT, JsNull, EmptyString, JsString(URL_ROOT), JsString(NOT_A_URL),
     JsObject(NoFields),
     One("original", One("url", JsString(URL_HTTP))),
     One("original", One("src", JsString(NOT_A_URL))),
     One("original", JsString(URL_HTTP)),
     JsObject(("original" :> EmptyString) @@ ("small" :> JsString(URL_ROOT))),
     One("small", One("small", JsString(URL_ROOT))),
     One("small", JsString(NOT_A_URL)),
     One("thumbnail", One("src", JsString(URL_HTTP))),
     One("thumbnail", JsString(URL_ROOT)),
     One("url", JsString(URL_HTTP)),
     One("src", JsNumber(<<"7">>))}

ProviderLogoValues ==
    {ABSENT, JsObject(NoFields),
     One("original", One("src", JsString(URL_LOGO))),
     One("original", One("url", JsString(NOT_A_URL))),
     One("original", JsString(URL_LOGO))}

\* the object with the given keys, leaving out those whose value is ABSENT
RawObject(fields) ==
    JsObject([k \in {k \in DOMAIN fields : fields[k] # ABSENT} |-> fields[k]])

\* raw games that differ in their image fields
ImageInputs ==
    {RawObject([id |-> JsString(<<"g1">>), name |-> JsString(<<"Wolf Gold">>),
                thumbnail |-> t, image |-> i, providerLogo |-> l]) :
        t \in ThumbnailValues, i \in ImageValues, l \in ProviderLogoValues}

\* raw games that differ in their identity, name and provider fields
IdentityInputs ==
    {RawObject([id |-> i, platformId |-> p, slug |-> sl, name |-> n,
                gameText |-> g, title |-> t, provider |-> pr,
                providerName |-> pn, image |-> JsString(URL_ROOT)]) :
        i \in {ABSENT, JsString(<<"g1">>), JsNumber(<<"0">>), JsNumber(<<"7">>)},
        p \in {ABSENT, JsString(<<"p1">>)},
        sl \in {ABSENT, JsString(<<"s1">>)},
        n \in {ABSENT, JsNull, EmptyString, JsString(<<"Wolf Gold">>)},
        g \in {ABSENT, JsString(<<"Wolf Text">>)},
        t \in {ABSENT, JsString(<<"Wolf Title">>)},
        pr \in {JsString(<<"Pragmatic">>), JsNumber(<<"7">>)},
        pn \in {ABSENT, JsString(<<"Pragmatic Play">>)}}

RawGames == ImageInputs \cup IdentityInputs

\* the values Math.random() returns
Randoms == {JsNumber(<<"0.25">>), JsNumber(<<"0.75">>)}

InitNormalize ==
    /\ games = initialState
    /\ lastAction = NoAction
    /\ categories = initialCategoriesState
    /\ lastCatAction = NoAction
    /\ retry = RetryCall(3, 1000, 10000)
    /\ cls = NoClassification
    /\ \E raw \in RawGames : norm = [NoMapping EXCEPT !.raw = raw, !.pc = "raw"]
    /\ fetch = NoFetch
    /\ limiter = NoLimiter
    /\ config = NoConfig
    /\ bar = NoBar
    /\ cache = NoCache
    /\ thunk = NoThunk

\* games.map(...) on the raw object
MapGame ==
    /\ norm.pc = "raw"
    /\ \E random \in Randoms :
          norm' = [norm EXCEPT !.once = mapGame(norm.raw, random), !.pc = "once"]
    /\ UNCHANGED notNorm

\* the mapping applied to the record it produced
MapGameAgain ==
    /\ norm.pc = "once"
    /\ \E random \in Randoms :
          norm' = [norm EXCEPT !.twice = mapGame(norm.once, random), !.pc = "twice"]
    /\ UNCHANGED notNorm

NextNormalize == MapGame \/ MapGameAgain

SpecNormalize == InitNormalize /\ [][NextNormalize]_vars

\* C7 (thumbnail invariant): the mapped record's thumbnail is a string that
\* is empty or starts with http or /, whichever field supplied it.
C7_ThumbnailValid ==
    norm.pc \in {"once", "twice"} =>
        /\ Prop(norm.once, "thumbnail").kind = "string"
        /\ isValidUrlString(Prop(norm.once, "thumbnail").str)

\* an object-valued candidate that is no URL was found and cleared
C7_Witness ==
    /\ norm.pc = "once"
    /\ Prop(norm.raw, "image") = One("original", One("src", JsString(NOT_A_URL)))
    /\ ~truthy(Prop(norm.raw, "thumbnail"))
    /\ Prop(norm.once, "thumbnail") = EmptyString

\* C8 (idempotence of normalization): mapping a mapped record again yields
\* the same record.
C8_Idempotent ==
    norm.pc = "twice" => norm.twice = norm.once

-----------------------------------------------------------------------------
(* The pagination projector over the states of the games store *)

\* C5 (pagination consistency): for pageSize >= 1 and pageNumber within
\* 1..totalPages, the projector returns min(pageSize, totalCount -
\* (pageNumber-1)*pageSize) games, with the totals the projector reports.
C5_PaginationConsistency ==
    LET view == selectGamesWithPagination(games)
    IN (games.pageSize >= 1 /\ games.pageNumber \in 1..view.totalPages) =>
          Len(view.games) =
             Min(view.pageSize,
                 view.totalCount - (view.pageNumber - 1) * view.pageSize)

-----------------------------------------------------------------------------
(* GamesList: the fetch effect, Load More and Retry, and the thunks in flight *)

MaxRequests == 2     \* thunks started by the effect and Load More in one behaviour
MaxRetryClicks == 1  \* clicks on Retry in one behaviour

INITIAL_PAGE_SIZE == 10
LOAD_MORE_INCREMENT == 10

\* game lists the upstream answers with: each category has its own games
UpstreamGames(getPageUrl) ==
    IF getPageUrl = <<"/", "casino">>
    THEN {<<>>, <<Game(1)>>, <<Game(2)>>}
    ELSE {<<>>, <<Game(3)>>}

\* totals the upstream reports (0: none reported)
UpstreamTotals == {0, 11}

\* category lists the server-side render hands to LobbyContent
InitialCategoryLists ==
    {<<>>,
     <<Category("lobby", <<"/", "casino">>),
       Category("new", <<"/", "pages", "/", "en", "/", "casino", "/", "new-games">>)>>}

\* reactStrictMode is on: a development build runs a mount effect twice, a
\* production build once
InitFetch ==
    /\ games = initialState
    /\ lastAction = NoAction
    /\ categories = initialCategoriesState
    /\ lastCatAction = NoAction
    /\ retry = RetryCall(3, 1000, 10000)
    /\ cls = NoClassification
    /\ norm = NoMapping
    /\ \E strict \in BOOLEAN : fetch = [NoFetch EXCEPT !.strict = strict]
    /\ limiter = NoLimiter
    /\ config = NoConfig
    /\ bar = NoBar
    /\ cache = NoCache
    /\ thunk = NoThunk

currentDeps == [selectedCategory |-> categories.selectedCategory,
                searchQuery |-> games.searchQuery]

\* GamesList.tsx lines 57-66: the parameters of the effect's fetch
effectParams ==
    [search |-> games.searchQuery, pageNumber |-> 1, pageSize |-> INITIAL_PAGE_SIZE]

\* LobbyContent's effect: categories from the server-side render
LobbyMounts ==
    /\ ~fetch.lobby
    /\ \E initialCategories \in InitialCategoryLists :
          IF Len(initialCategories) > 0
          THEN /\ categories' = categoriesReducer(categories, setCategories(initialCategories))
               /\ lastCatAction' = setCategories(initialCategories)
          ELSE UNCHANGED catVars
    /\ fetch' = [fetch EXCEPT !.lobby = TRUE]
    /\ UNCHANGED <<gameVars, notStore>>

\* CategoriesNav handleCategoryClick
ClickCategory ==
    /\ \E i \in 1..Len(categories.items) :
          /\ categories' = categoriesReducer(categories, setSelectedCategory(categories.items[i]))
          /\ lastCatAction' = setSelectedCategory(categories.items[i])
    /\ UNCHANGED notCategories

\* SearchBar's effect once the debounced text differs from the store's
SearchDebounced ==
    /\ \E debouncedQuery \in SearchTexts :
          /\ debouncedQuery # games.searchQuery
          /\ games' = gamesReducer(games, setSearchQuery(debouncedQuery))
          /\ lastAction' = setSearchQuery(debouncedQuery)
    /\ UNCHANGED notGames

\* GamesList mounts: the fetch effect runs, twice in a strict-mode build
GamesListMounts ==
    /\ ~fetch.mounted
    /\ LET getPage == categories.selectedCategory.getPage
           f0 == [fetch EXCEPT !.mounted = TRUE, !.deps = currentDeps]
           first == thunkStart(games, f0, "effect", getPage, effectParams)
           second == thunkStart(first.games, first.fetch, "effect", getPage, effectParams)
       IN IF getPage = <<>>
          THEN /\ fetch' = f0
               /\ UNCHANGED gameVars
          ELSE /\ games' = IF fetch.strict THEN second.games ELSE first.games
               /\ fetch' = IF fetch.strict THEN second.fetch ELSE first.fetch
               /\ lastAction' = byCategoryPending
    /\ UNCHANGED <<catVars, notStore>>

\* the fetch effect after a render in which selectedCategory or searchQuery
\* changed
FetchEffect ==
    /\ fetch.mounted
    /\ fetch.deps # currentDeps
    /\ Len(fetch.requests) - fetch.retries < MaxRequests
    /\ LET getPage == categories.selectedCategory.getPage
           f0 == [fetch EXCEPT !.deps = currentDeps]
           started == thunkStart(games, f0, "effect", getPage, effectParams)
       IN IF getPage = <<>>
          THEN /\ fetch' = f0
               /\ UNCHANGED gameVars
          ELSE /\ games' = started.games
               /\ fetch' = started.fetch
               /\ lastAction' = byCategoryPending
    /\ UNCHANGED <<catVars, notStore>>

\* GamesList.tsx lines 35-50, behind the Load More button of lines 166-176
HandleLoadMore ==
    /\ fetch.mounted
    /\ games.items # <<>>
    /\ ~games.loading /\ Len(games.items) < games.totalCount /\ games.totalCount > 0
    /\ categories.selectedCategory.getPage # <<>>
    /\ Len(fetch.requests) - fetch.retries < MaxRequests
    /\ LET newPageSize == games.pageSize + LOAD_MORE_INCREMENT
           increased == gamesReducer(games, increasePageSize(LOAD_MORE_INCREMENT))
           started == thunkStart(increased, fetch, "loadMore",
                                 categories.selectedCategory.getPage,
                                 [search |-> games.searchQuery, pageNumber |-> 1,
                                  pageSize |-> newPageSize])
       IN /\ games' = started.games
          /\ fetch' = started.fetch
          /\ lastAction' = byCategoryPending
    /\ UNCHANGED <<catVars, notStore>>

\* GamesList.tsx lines 82-105: the Retry button of the error view
ClickRetry ==
    /\ fetch.mounted
    /\ ~games.loading /\ games.error # NULL /\ games.items = <<>>
    /\ categories.selectedCategory.getPage # <<>>
    /\ fetch.retries < MaxRetryClicks
    /\ LET started == thunkStart(games, fetch, "retry",
                                 categories.selectedCategory.getPage,
                                 [search |-> games.searchQuery,
                                  pageNumber |-> games.pageNumber,
                                  pageSize |-> games.pageSize])
       IN /\ games' = started.games
          /\ fetch' = [started.fetch EXCEPT !.retries = @ + 1]
          /\ lastAction' = byCategoryPending
    /\ UNCHANGED <<catVars, notStore>>

\* a request in flight resolves; its thunk dispatches FULFILLED
ResponseArrives ==
    /\ \E i \in fetch.inflight, total \in UpstreamTotals :
       \E mappedGames \in UpstreamGames(fetch.requests[i].getPageUrl) :
          LET request == fetch.requests[i]
              a == byCategoryFulfilled(request, serviceResponse(request, mappedGames, total))
          IN /\ games' = gamesReducer(games, a)
             /\ lastAction' = a
             /\ fetch' = [fetch EXCEPT !.inflight = @ \ {i}, !.settled = Append(@, i)]
    /\ UNCHANGED <<catVars, notStore>>

\* a request in flight fails for good; its thunk dispatches REJECTED
RequestFails ==
    /\ \E i \in fetch.inflight, message \in Messages :
          /\ games' = gamesReducer(games, byCategoryRejected(message))
          /\ lastAction' = byCategoryRejected(message)
          /\ fetch' = [fetch EXCEPT !.inflight = @ \ {i}, !.settled = Append(@, i)]
    /\ UNCHANGED <<catVars, notStore>>

\* a request in flight resolves in the createSlice revision of the slice
ResponseArrives010 ==
    /\ \E i \in fetch.inflight, total \in UpstreamTotals :
       \E mappedGames \in UpstreamGames(fetch.requests[i].getPageUrl) :
          LET request == fetch.requests[i]
              a == byCategoryFulfilled010(games, fetch.triggers[request.trigger],
                                          mappedGames, total)
          IN /\ games' = gamesReducer009(games, a)
             /\ lastAction' = a
             /\ fetch' = [fetch EXCEPT !.inflight = @ \ {i}, !.settled = Append(@, i)]
    /\ UNCHANGED <<catVars, notStore>>

NextFetchCommon ==
    \/ HandlePageChange
    \/ LobbyMounts
    \/ ClickCategory
    \/ SearchDebounced
    \/ GamesListMounts
    \/ FetchEffect
    \/ HandleLoadMore
    \/ ClickRetry
    \/ RequestFails

NextFetch == NextFetchCommon \/ ResponseArrives

NextFetch010 == NextFetchCommon \/ ResponseArrives010

\* GamesList over the store of store/slices/gamesSlice.ts
SpecFetch == InitFetch /\ [][NextFetch]_vars

\* GamesList over the store of the createSlice revision (part_010)
SpecFetch010 == InitFetch /\ [][NextFetch010]_vars

\* the request whose response the step applies is one handleLoadMore issued
LoadMoreResponseApplied ==
    /\ lastAction'.type = "FETCH_GAMES_BY_CATEGORY_FULFILLED"
    /\ \E i \in fetch.inflight \ fetch'.inflight : fetch.requests[i].origin = "loadMore"

\* C12 (load more end to end): when the fetch handleLoadMore issued succeeds,
\* the items shown before it are kept in their order and the new games are
\* appended after them.
C12_LoadMoreAppends ==
    [][LoadMoreResponseApplied =>
         /\ Len(games'.items) >= Len(games.items)
         /\ SubSeq(games'.items, 1, Len(games.items)) = games.items]_vars

\* C4 (query idempotency): of two consecutive triggers with an identical
\* (category reference, search text, page number, page size) tuple, the
\* second issues no network request.
C4_QueryIdempotent ==
    \A k \in 1..(Len(fetch.triggers) - 1) :
        fetch.triggers[k] = fetch.triggers[k + 1] =>
            ~\E j \in 1..Len(fetch.requests) : fetch.requests[j].trigger = k + 1

\* C13 (page reset on category change): a selection that changes the selected
\* category's id leaves pageNumber = 1 in the resulting state.
C13_PageResetOnCategoryChange ==
    [][(/\ lastCatAction'.type = "SET_SELECTED_CATEGORY"
        /\ categories'.selectedCategory.id # categories.selectedCategory.id)
       => games'.pageNumber = 1]_vars

\* the games the upstream holds for a category
CatalogOf(getPageUrl) ==
    UNION {{list[k] : k \in 1..Len(list)} : list \in UpstreamGames(getPageUrl)}

\* the fetch effect has run for the current category and search, and every
\* request has settled
Quiescent ==
    /\ fetch.mounted
    /\ fetch.deps = currentDeps
    /\ fetch.inflight = {}

\* C14 (no stale items): once the fetch for a changed category or search has
\* settled, successfully or not, items holds no game fetched for the previous
\* category.
C14_NoStaleItems ==
    Quiescent =>
        \A k \in 1..Len(games.items) :
            games.items[k] \in CatalogOf(categories.selectedCategory.getPage)

\* C15 (page number bounds): in the state a setPageNumber leaves, pageNumber
\* is at least 1 and at most max(1, ceil(totalCount / pageSize)).
C15_PageNumberBounds ==
    lastAction.type = "SET_PAGE_NUMBER" =>
        LET totalPages == ceilDiv(games.totalCount, games.pageSize)
        IN /\ games.pageNumber >= 1
           /\ games.pageNumber <= (IF totalPages > 1 THEN totalPages ELSE 1)

\* the thunk's request for a search the endpoint cannot serve
Inflated(request) ==
    /\ Len(trim(fetch.triggers[request.trigger].search)) > 0
    /\ ~supportsSearch(request.getPageUrl)

\* C18 (inflated page size): a fetch with a non-blank search on an endpoint
\* without search support asks for page 1 with page size 200 and no search
\* term; every other fetch asks for the caller's page size and carries the
\* search term exactly when the search is non-blank and the endpoint
\* supports search.
C18_InflatedPageSize ==
    \A i \in 1..Len(fetch.requests) :
        LET request == fetch.requests[i]
            trigger == fetch.triggers[request.trigger]
        IN IF Inflated(request)
           THEN /\ request.params.pageNumber = 1
                /\ request.params.pageSize = 200
                /\ request.params.search = <<>>
           ELSE /\ request.params.pageSize = trigger.pageSize
                /\ (request.params.search # <<>>) <=>
                      (Len(trim(trigger.search)) > 0 /\ supportsSearch(request.getPageUrl))

\* /pages/en/casino/<collection>: a curated category endpoint
Curated(path) == startsWith(path, PAGES_EN_CASINO \o SLASH)

PagingKeys == {"pageNumber", "pageSize"}

C20_LateResponseApplied ==
    [][\A i \in 1..Len(fetch.requests) :
          (/\ fetch'.settled = Append(fetch.settled, i)
           /\ lastAction'.type = "FETCH_GAMES_BY_CATEGORY_FULFILLED")
          => /\ lastAction'.payload.games \in UpstreamGames(fetch.requests[i].getPageUrl)
             /\ games'.items = lastAction'.payload.games
             /\ games'.totalCount =
                   OrNum(lastAction'.payload.totalCount, Len(lastAction'.payload.games))]_vars

\* the lobby's fetch was issued first and answered last, both with success:
\* the store holds the lobby's game and total while the category new is
\* selected
C20_Witness ==
    /\ Len(fetch.requests) = 2
    /\ fetch.requests[1].getPageUrl = CASINO
    /\ Curated(fetch.requests[2].getPageUrl)
    /\ fetch.settled = <<2, 1>>
    /\ lastAction.type = "FETCH_GAMES_BY_CATEGORY_FULFILLED"
    /\ categories.selectedCategory.getPage = fetch.requests[2].getPageUrl
    /\ fetch.deps = currentDeps
    /\ games.items = <<Game(1)>>
    /\ games.totalCount = 11
    /\ ~games.loading
    /\ games.error = NULL      \* neither fetch failed

-----------------------------------------------------------------------------
(* The rate limiter under calls from clients, with time passing *)

WindowLimit == 2     \* maxRequests of the limiter
WindowMs == 2        \* its windowMs, in clock ticks
MaxTime == 6         \* last clock value

InitLimiter ==
    /\ games = initialState
    /\ lastAction = NoAction
    /\ categories = initialCategoriesState
    /\ lastCatAction = NoAction
    /\ retry = RetryCall(3, 1000, 10000)
    /\ cls = NoClassification
    /\ norm = NoMapping
    /\ fetch = NoFetch
    /\ limiter = RateLimiter(WindowLimit, WindowMs)
    /\ config = NoConfig
    /\ bar = NoBar
    /\ cache = NoCache
    /\ thunk = NoThunk

\* Date.now() moves on
ClockTicks ==
    /\ limiter.now < MaxTime
    /\ limiter' = [limiter EXCEPT !.now = @ + 1]
    /\ UNCHANGED notLimiter

\* isAllowed(key) creates a window
IsAllowedNewWindow ==
    /\ \E key \in ClientKeys :
          /\ needsNewWindow(limiter, key)
          /\ limiter' = [limiter EXCEPT
                 !.requests[key] = [count |-> 1, resetTime |-> limiter.now + limiter.windowMs],
                 !.opened[key] = limiter.now,
                 !.granted[key] = 1,
                 !.last = [key |-> key, allowed |-> TRUE, at |-> limiter.now]]
    /\ UNCHANGED notLimiter

\* isAllowed(key) inside a window that is full: the route answers 429
IsAllowedRejects ==
    /\ \E key \in ClientKeys :
          /\ ~needsNewWindow(limiter, key)
          /\ isWindowFull(limiter, key)
          /\ limiter' = [limiter EXCEPT
                 !.last = [key |-> key, allowed |-> FALSE, at |-> limiter.now]]
    /\ UNCHANGED notLimiter

\* isAllowed(key) inside a window that has room
IsAllowedCounts ==
    /\ \E key \in ClientKeys :
          /\ ~needsNewWindow(limiter, key)
          /\ ~isWindowFull(limiter, key)
          /\ limiter' = [limiter EXCEPT
                 !.requests[key].count = @ + 1,
                 !.granted[key] = @ + 1,
                 !.last = [key |-> key, allowed |-> TRUE, at |-> limiter.now]]
    /\ UNCHANGED notLimiter

\* clearExpired()
ClearExpired ==
    /\ \E key \in ClientKeys :
          limiter.requests[key] # NoRecord /\ limiter.now > limiter.requests[key].resetTime
    /\ limiter' = [limiter EXCEPT !.requests =
           [key \in ClientKeys |->
               IF limiter.requests[key] # NoRecord /\ limiter.now > limiter.requests[key].resetTime
               THEN NoRecord ELSE limiter.requests[key]]]
    /\ UNCHANGED notLimiter

NextLimiter ==
    \/ ClockTicks
    \/ IsAllowedNewWindow
    \/ IsAllowedRejects
    \/ IsAllowedCounts
    \/ ClearExpired

SpecLimiter == InitLimiter /\ [][NextLimiter]_vars

\* the window a key's latest grant opened is still running
InWindow(key) ==
    limiter.granted[key] > 0 /\ limiter.now <= limiter.opened[key] + WindowMs

\* C16 (rate limit cap): at most maxRequests calls of a key return true in
\* one window; a call that returns false falls in a running window that is
\* used up; a call that finds no running window returns true and opens a
\* window with count 1.
C16_RateLimitCap ==
    /\ \A key \in ClientKeys : limiter.granted[key] <= WindowLimit
    /\ (limiter.last # NoCall /\ limiter.last.at = limiter.now) =>
          LET key == limiter.last.key
          IN /\ InWindow(key)
             /\ ~limiter.last.allowed => limiter.granted[key] = WindowLimit
             /\ limiter.last.allowed =>
                   limiter.requests[key].count = limiter.granted[key]

\* a call made after more than a window's time opened a window with count 1
C16_Witness ==
    /\ limiter.last = [key |-> "unknown", allowed |-> TRUE, at |-> limiter.now]
    /\ limiter.granted["unknown"] = 1
    /\ limiter.opened["unknown"] = limiter.now
    /\ limiter.now > WindowMs
    /\ limiter.requests["unknown"] = [count |-> 1, resetTime |-> limiter.now + WindowMs]

-----------------------------------------------------------------------------
(* Further laws of the games reducer *)

GamesFulfilledTypes == {"FETCH_GAMES_FULFILLED", "FETCH_GAMES_BY_CATEGORY_FULFILLED"}

\* C21 (total count fallback): after a successful games fetch of either kind
\* totalCount is the total the payload reports when it reports one, and the
\* number of items stored when it reports none (zero).
C21_TotalCountFallback ==
    lastAction.type \in GamesFulfilledTypes =>
        games.totalCount = IF lastAction.payload.totalCount # 0
                           THEN lastAction.payload.totalCount
                           ELSE Len(games.items)

\* C22 (hasMore): the projector reports hasMore exactly when the end index of
\* the current page, pageNumber * pageSize, is below the totalCount it reports.
C22_HasMore ==
    LET view == selectGamesWithPagination(games)
    IN view.hasMore <=> (games.pageNumber * games.pageSize < view.totalCount)

-----------------------------------------------------------------------------
(* Further laws of the game mapping *)

\* the first of name, gameText, title that is present, as a string
FirstPresentName(raw) ==
    IF truthy(Prop(raw, "name")) THEN String(Prop(raw, "name"))
    ELSE IF truthy(Prop(raw, "gameText")) THEN String(Prop(raw, "gameText"))
    ELSE IF truthy(Prop(raw, "title")) THEN String(Prop(raw, "title"))
    ELSE String(UNKNOWN_GAME)

\* C23 (name resolution): the mapped record's name is the first present value
\* among the raw name, gameText and title, and "Unknown Game" when none is
\* present; an empty or null raw name is never the record's name when
\* gameText or title is set.
C23_NameResolution ==
    norm.pc \in {"once", "twice"} =>
        Prop(norm.once, "name") = JsString(FirstPresentName(norm.raw))

-----------------------------------------------------------------------------
(* services/api.ts: fetchConfig, from the parsed response to the categories *)
(* it returns.  A string field that is absent reads as the empty string,    *)
(* which the code treats alike (both are falsy).                            *)

NEW_GAMES == PAGES_EN_CASINO \o <<"/", "new-games">>
HOST == <<"https://", "casino.api">>

\* new URL(s) throws unless s is an absolute URL
isAbsoluteUrl(s) == startsWith(s, HTTP) \/ startsWith(s, HTTPS)

\* lines 76-101: the page reference of one menu item
menuItemGetPage(menuItem) ==
    LET direct == OrStr(menuItem.getPage, OrStr(menuItem.url, OrStr(menuItem.path, <<>>)))
        fullPath == pathname(menuItem.links)
        fromLinks ==
            IF isAbsoluteUrl(menuItem.links)
            THEN IF fullPath = PAGES_EN_CASINO \/ menuItem.path = CASINO
                 THEN EN_GAMES_TILES
                 ELSE fullPath
            ELSE OrStr(menuItem.path, <<>>)
        getPage == IF direct = <<>> /\ menuItem.links # <<>> THEN fromLinks ELSE direct
    IN IF getPage = <<>> /\ menuItem.path = CASINO THEN EN_GAMES_TILES ELSE getPage

\* lines 103-107: the category made of one menu item
menuItemCategory(menuItem, random) ==
    [id |-> OrStr(menuItem.id, OrStr(menuItem.slug, random)),
     name |-> OrStr(menuItem.title, OrStr(menuItem.name, OrStr(menuItem.label, <<"Unnamed Category">>))),
     getPage |-> OrStr(menuItemGetPage(menuItem), OrStr(menuItem.path, <<>>))]

\* line 109: .filter((cat) => cat.getPage)
hasGetPage(cat) == cat.getPage # <<>>

\* lines 55-109: data.menu.lobby.items mapped and filtered
RECURSIVE menuCategories(_, _)
menuCategories(items, random) ==
    IF items = <<>> THEN <<>>
    ELSE LET cat == menuItemCategory(Head(items), random)
         IN (IF hasGetPage(cat) THEN <<cat>> ELSE <<>>) \o menuCategories(Tail(items), random)

MaxItems == 2    \* entries of a config response

MenuItems ==
    [id : {<<>>, <<"c1">>}, slug : {<<"s1">>}, title : {<<"Slots">>}, name : {<<>>},
     label : {<<>>},
     getPage : {<<>>, NEW_GAMES}, url : {<<>>, <<"new-games">>},
     path : {<<>>, CASINO},
     links : {<<>>, HOST \o PAGES_EN_CASINO, HOST \o NEW_GAMES, <<"not a url">>}]

\* entries of a direct categories array, as the upstream sends them
DirectCategories ==
    [id : {<<"c1">>, <<"c2">>}, name : {<<"Slots">>},
     getPage : {<<>>, CASINO, NEW_GAMES}]

\* parsed config responses: with menu.lobby.items, with a categories array,
\* with neither
ConfigResponses ==
    {[shape |-> "menu", items |-> l] : l \in SeqsUpTo(MenuItems, MaxItems)}
    \cup {[shape |-> "categories", items |-> l] : l \in SeqsUpTo(DirectCategories, MaxItems)}
    \cup {[shape |-> "other", items |-> <<>>]}

InitConfig ==
    /\ games = initialState
    /\ lastAction = NoAction
    /\ categories = initialCategoriesState
    /\ lastCatAction = NoAction
    /\ retry = RetryCall(3, 1000, 10000)
    /\ cls = NoClassification
    /\ norm = NoMapping
    /\ fetch = NoFetch
    /\ limiter = NoLimiter
    /\ \E data \in ConfigResponses : config = [NoConfig EXCEPT !.data = data, !.pc = "parsed"]
    /\ bar = NoBar
    /\ cache = NoCache
    /\ thunk = NoThunk

\* lines 55-109: the response has menu.lobby.items
ReturnMenuCategories ==
    /\ config.pc = "parsed"
    /\ config.data.shape = "menu"
    /\ config' = [config EXCEPT !.categories = menuCategories(config.data.items, <<"0.25">>),
                                !.pc = "returned"]
    /\ UNCHANGED notConfig

\* lines 112-115: the response has a categories array
ReturnDirectCategories ==
    /\ config.pc = "parsed"
    /\ config.data.shape = "categories"
    /\ config' = [config EXCEPT !.categories = config.data.items, !.pc = "returned"]
    /\ UNCHANGED notConfig

\* lines 123-124: neither
ReturnNoCategories ==
    /\ config.pc = "parsed"
    /\ config.data.shape = "other"
    /\ config' = [config EXCEPT !.categories = <<>>, !.pc = "returned"]
    /\ UNCHANGED notConfig

NextConfig == ReturnMenuCategories \/ ReturnDirectCategories \/ ReturnNoCategories

SpecConfig == InitConfig /\ [][NextConfig]_vars

\* C24 (category page reference): every category fetchConfig returns has a
\* non-empty getPage, whether it comes from menu.lobby.items or from a direct
\* categories array.
C24_GetPageNonEmpty ==
    config.pc = "returned" =>
        \A i \in 1..Len(config.categories) : config.categories[i].getPage # <<>>

-----------------------------------------------------------------------------
(* One invocation of fetchGamesByCategory, with the retries that           *)
(* fetchCategoryGames makes inside retryWithBackoff (maxRetries 3,         *)
(* initialDelay 1000, maxDelay 10000)                                      *)

awaitThrowsOnAnyFailure(r) == r.pc \in {"rejected", "waiting"}

\* gamesSlice.ts lines 240 and 252: await fetchCategoryGames(...) throws into
\* the catch block when the promise of retryWithBackoff rejects
awaitThrows(r) == r.pc = "rejected"

InitInvoke ==
    /\ \E q \in SearchTexts, items \in {<<>>, <<Game(1)>>} :
          games = [initialState EXCEPT !.searchQuery = q, !.items = items,
                                       !.totalCount = Len(items)]
    /\ lastAction = NoAction
    /\ categories = initialCategoriesState
    /\ lastCatAction = NoAction
    /\ retry = RetryCall(3, 1000, 10000)
    /\ cls = NoClassification
    /\ norm = NoMapping
    /\ fetch = NoFetch
    /\ limiter = NoLimiter
    /\ config = NoConfig
    /\ bar = NoBar
    /\ cache = NoCache
    /\ \E getPageUrl \in {CASINO, NEW_GAMES} : thunk = [NoThunk EXCEPT !.getPageUrl = getPageUrl]

\* lines 205-240: PENDING is dispatched, the state read and the service called
InvokeThunk ==
    /\ thunk.pc = "idle"
    /\ LET pending == gamesReducer(games, byCategoryPending)
           params == [search |-> games.searchQuery, pageNumber |-> 1,
                      pageSize |-> INITIAL_PAGE_SIZE]
       IN /\ games' = pending
          /\ lastAction' = byCategoryPending
          /\ thunk' = [thunk EXCEPT
                 !.pc = "running",
                 !.params = thunkFetchParams(thunk.getPageUrl, params, pending),
                 !.dispatched = <<byCategoryPending>>]
    /\ UNCHANGED <<retry, notThunk>>

\* an attempt of the service's fn resolves
AttemptResolves ==
    /\ thunk.pc = "running"
    /\ retry.pc = "loop"
    /\ retry.attempt <= retry.maxRetries
    /\ retry' = [retry EXCEPT !.calls = @ + 1,
                              !.result = ValueOf(retry.calls + 1),
                              !.pc = "resolved"]
    /\ UNCHANGED <<gameVars, thunk, notThunk>>

\* an attempt of the service's fn throws (network error, response not ok)
AttemptThrows ==
    /\ thunk.pc = "running"
    /\ retry.pc = "loop"
    /\ retry.attempt <= retry.maxRetries
    /\ LET err == ErrorOf(retry.calls + 1)
           r1 == [retry EXCEPT !.calls = @ + 1, !.failures = @ + 1,
                               !.lastError = err]
       IN retry' =
            IF isLastAttempt(r1)
            THEN [r1 EXCEPT !.thrown = err, !.pc = "rejected"]
            ELSE [r1 EXCEPT !.onRetry = Append(@, <<r1.attempt + 1, err>>),
                            !.waits = Append(@, backoffDelay(r1)),
                            !.pc = "waiting"]
    /\ UNCHANGED <<gameVars, thunk, notThunk>>

\* the wait before the next attempt is over
BackoffElapses ==
    /\ thunk.pc = "running"
    /\ retry.pc = "waiting"
    /\ retry' = [retry EXCEPT !.attempt = @ + 1, !.pc = "loop"]
    /\ UNCHANGED <<gameVars, thunk, notThunk>>

\* lines 240-251: the service resolved; FULFILLED is dispatched
ThunkDispatchesFulfilled ==
    /\ thunk.pc = "running"
    /\ retry.pc = "resolved"
    /\ \E total \in UpstreamTotals :
       \E mappedGames \in UpstreamGames(thunk.getPageUrl) :
          LET request == [getPageUrl |-> thunk.getPageUrl, params |-> thunk.params]
              a == byCategoryFulfilled(request, serviceResponse(request, mappedGames, total))
          IN /\ games' = gamesReducer(games, a)
             /\ lastAction' = a
             /\ thunk' = [thunk EXCEPT !.pc = "done", !.dispatched = Append(@, a)]
    /\ UNCHANGED <<retry, notThunk>>

\* lines 252-257: the catch block; REJECTED carries error.message
ThunkDispatchesRejected ==
    /\ thunk.pc = "running"
    /\ awaitThrows(retry)
    /\ LET a == byCategoryRejected(retry.lastError.message)
       IN /\ games' = gamesReducer(games, a)
          /\ lastAction' = a
          /\ thunk' = [thunk EXCEPT !.pc = "done", !.dispatched = Append(@, a)]
    /\ UNCHANGED <<retry, notThunk>>

NextInvoke ==
    \/ InvokeThunk
    \/ AttemptResolves
    \/ AttemptThrows
    \/ BackoffElapses
    \/ ThunkDispatchesFulfilled
    \/ ThunkDispatchesRejected

\* attempts settle, timers fire and the thunk's continuation runs
SpecInvoke == InitInvoke /\ [][NextInvoke]_vars /\ WF_vars(NextInvoke)

CategoryTerminalTypes ==
    {"FETCH_GAMES_BY_CATEGORY_FULFILLED", "FETCH_GAMES_BY_CATEGORY_REJECTED"}

TransparentRetries ==
    LET d == thunk.dispatched
    IN /\ Len(d) <= 2
       /\ Len(d) >= 1 => d[1] = byCategoryPending
       /\ Len(d) = 2 =>
            /\ thunk.pc = "done"
            /\ d[2].type \in CategoryTerminalTypes
            /\ d[2].type = "FETCH_GAMES_BY_CATEGORY_REJECTED" =>
                  /\ retry.calls = retry.maxRetries + 1
                  /\ retry.failures = retry.calls
                  /\ d[2].payload = ErrorOf(retry.calls).message
            /\ retry.pc = "resolved" => d[2].type = "FETCH_GAMES_BY_CATEGORY_FULFILLED"
       /\ thunk.pc = "done" => Len(d) = 2

\* C25 (transparent retries): one invocation of the thunk dispatches one
\* pending action and then exactly one terminal action; the terminal action is
\* rejected, with the error's message, only when all maxRetries + 1 attempts
\* failed, and fulfilled when an attempt succeeded after earlier failures.
C25_TransparentRetries ==
    /\ []TransparentRetries
    /\ <>(Len(thunk.dispatched) = 2)

\* two attempts failed, the third succeeded, and the store saw only pending
\* and fulfilled
C25_Witness ==
    /\ thunk.pc = "done"
    /\ retry.failures = 2
    /\ retry.calls = 3
    /\ Len(thunk.dispatched) = 2
    /\ thunk.dispatched[2].type = "FETCH_GAMES_BY_CATEGORY_FULFILLED"
    /\ games.error = NULL

-----------------------------------------------------------------------------
(* Further properties of the games store under the GamesList component *)

\* C26 (loading flag under overlap): loading is true exactly when a games
\* fetch has dispatched its pending action and not yet its terminal action.
C26_LoadingWhileInFlight ==
    games.loading <=> (fetch.inflight # {})

-----------------------------------------------------------------------------
(* The categories store under LobbyContent and CategoriesNav *)

\* LobbyContent.tsx lines 28-38: the effect hands the server-rendered list,
\* if it is not empty, to the store
LobbySetsCategories ==
    /\ ~fetch.lobby
    /\ \E initialCategories \in CategoryLists :
          IF Len(initialCategories) > 0
          THEN /\ categories' = categoriesReducer(categories, setCategories(initialCategories))
               /\ lastCatAction' = setCategories(initialCategories)
          ELSE UNCHANGED catVars
    /\ fetch' = [fetch EXCEPT !.lobby = TRUE]
    /\ UNCHANGED <<gameVars, notStore>>

\* CategoriesNav.tsx lines 41-47: the effect fetches when the list is empty
\* and nothing is loading; fetchCategories dispatches PENDING
NavFetchesCategories ==
    /\ Len(categories.items) = 0 /\ ~categories.loading
    /\ LET a == [type |-> "FETCH_CATEGORIES_PENDING", payload |-> NONE]
       IN /\ categories' = categoriesReducer(categories, a)
          /\ lastCatAction' = a
    /\ UNCHANGED notCategories

\* fetchConfig resolves; fetchCategories dispatches FULFILLED
ConfigArrives ==
    /\ categories.loading
    /\ \E list \in CategoryLists :
          LET a == [type |-> "FETCH_CATEGORIES_FULFILLED", payload |-> list]
          IN /\ categories' = categoriesReducer(categories, a)
             /\ lastCatAction' = a
    /\ UNCHANGED notCategories

\* fetchConfig rejects; fetchCategories dispatches REJECTED
ConfigFails ==
    /\ categories.loading
    /\ \E message \in Messages :
          LET a == [type |-> "FETCH_CATEGORIES_REJECTED", payload |-> message]
          IN /\ categories' = categoriesReducer(categories, a)
             /\ lastCatAction' = a
    /\ UNCHANGED notCategories

\* CategoriesNav.tsx lines 49-56: a click on one of the categories shown
HandleCategoryClick ==
    /\ \E i \in 1..Len(categories.items) :
          /\ categories' = categoriesReducer(categories, setSelectedCategory(categories.items[i]))
          /\ lastCatAction' = setSelectedCategory(categories.items[i])
    /\ UNCHANGED notCategories

NextNav ==
    \/ LobbySetsCategories
    \/ NavFetchesCategories
    \/ ConfigArrives
    \/ ConfigFails
    \/ HandleCategoryClick

SpecNav == InitStore /\ [][NextNav]_vars

\* C27 (selection membership): selectedCategory is null or has the id of an
\* element of the items list.
C27_SelectionMembership ==
    \/ categories.selectedCategory = NullCategory
    \/ \E i \in 1..Len(categories.items) :
          categories.items[i].id = categories.selectedCategory.id

(***************************************************************************)
(* components/SearchBar.tsx: the input keeps localQuery, useDebounce       *)
(* returns debouncedQuery, and an effect with the dependencies             *)
(* [debouncedQuery, searchQuery] copies debouncedQuery into the store.     *)
(* bar.effectDue says that a dependency changed in the last render and the *)
(* effect has not run yet; React runs it before it handles another event.  *)
(* bar.cleared records that Clear was the user's last input, bar.tracked   *)
(* the last text handed to analytics.trackSearch.                          *)
(***************************************************************************)

\* what the user can type
BarTexts == SearchTexts \cup {<<"B">>, <<"A", "B">>}

\* useDebounce(value, delay): a new value restarts the timer, the value
\* returned stays what it was until the timer fires
useDebounce(b, value) ==
    [b EXCEPT !.timer = IF value # b.localQuery THEN TRUE ELSE b.timer]

\* SearchBar.tsx lines 59-61: the user edits the input
HandleChange ==
    /\ ~bar.effectDue
    /\ \E value \in BarTexts :
          /\ value # bar.localQuery
          /\ bar' = [useDebounce(bar, value) EXCEPT !.localQuery = value,
                                                     !.cleared = FALSE]
    /\ UNCHANGED <<gameVars, notBar>>

\* useDebounce's timer fires after SEARCH_DEBOUNCE_MS: the debounced text
\* becomes the input's text; the render that follows runs SearchBar's effect
\* when the text changed
DebounceTimerFires ==
    /\ ~bar.effectDue
    /\ bar.timer
    /\ bar' = [bar EXCEPT !.timer = FALSE,
                          !.debouncedQuery = bar.localQuery,
                          !.effectDue = (bar.localQuery # bar.debouncedQuery)]
    /\ UNCHANGED <<gameVars, notBar>>

\* SearchBar.tsx lines 28-37: the effect after a render in which debouncedQuery
\* or searchQuery changed
SearchEffect ==
    /\ bar.effectDue
    /\ IF bar.debouncedQuery # games.searchQuery
       THEN /\ games' = gamesReducer(games, setSearchQuery(bar.debouncedQuery))
            /\ lastAction' = setSearchQuery(bar.debouncedQuery)
            \* analytics.trackSearch for a text that is not empty; the
            \* dispatch changed searchQuery: the effect runs once more
            /\ bar' = [bar EXCEPT !.effectDue = TRUE,
                                  !.tracked = IF bar.debouncedQuery # <<>>
                                              THEN bar.debouncedQuery
                                              ELSE bar.tracked]
       ELSE /\ bar' = [bar EXCEPT !.effectDue = FALSE]
            /\ UNCHANGED gameVars
    /\ UNCHANGED notBar

\* SearchBar.tsx lines 63-66: the Clear button, rendered while the input has
\* text
HandleClear ==
    /\ ~bar.effectDue
    /\ bar.localQuery # <<>>
    /\ games' = gamesReducer(games, setSearchQuery(<<>>))
    /\ lastAction' = setSearchQuery(<<>>)
    /\ bar' = [useDebounce(bar, <<>>) EXCEPT
                 !.localQuery = <<>>,
                 !.cleared = TRUE,
                 !.effectDue = (games.searchQuery # <<>>)]
    /\ UNCHANGED notBar

NextSearchBar ==
    \/ HandleChange
    \/ DebounceTimerFires
    \/ SearchEffect
    \/ HandleClear

SpecSearchBar == InitStore /\ [][NextSearchBar]_vars

\* C28 (Clear is final): from the click on Clear until the user types again
\* the store's searchQuery is the empty string.
C28_ClearIsFinal == bar.cleared => games.searchQuery = <<>>

-----------------------------------------------------------------------------
(* utils/cache.ts, SimpleCache under any calls, with time passing *)

MaxTtl == 2          \* longest ttl handed to set, in clock ticks
MaxCacheTime == 4    \* last clock value

Ttls == 0..MaxTtl

isExpiredAtTtl(entry, now) == now - entry.timestamp >= entry.ttl

\* cache.ts lines 41, 62, 85: now - entry.timestamp > entry.ttl
isExpired(entry, now) == now - entry.timestamp > entry.ttl

\* Date.now() moves on
CacheClockTicks ==
    /\ cache.now < MaxCacheTime
    /\ cache' = [cache EXCEPT !.now = @ + 1]
    /\ UNCHANGED notCache

\* set(key, value, ttl)
CacheSet ==
    /\ \E key \in CacheKeys, value \in CacheValues, ttl \in Ttls :
          LET entry == [data |-> value, timestamp |-> cache.now, ttl |-> ttl]
          IN cache' = [cache EXCEPT
                 !.cache[key] = entry,
                 !.written[key] = entry,
                 !.last = [op |-> "set", key |-> key, data |-> NULL, found |-> FALSE]]
    /\ UNCHANGED notCache

\* get(key)
CacheGet ==
    /\ \E key \in CacheKeys :
          LET entry == cache.cache[key]
          IN IF entry = NoEntry
             THEN cache' = [cache EXCEPT
                      !.last = [op |-> "get", key |-> key, data |-> NULL, found |-> FALSE]]
             ELSE IF isExpired(entry, cache.now)
             THEN cache' = [cache EXCEPT
                      !.cache[key] = NoEntry,
                      !.last = [op |-> "get", key |-> key, data |-> NULL, found |-> FALSE]]
             ELSE cache' = [cache EXCEPT
                      !.last = [op |-> "get", key |-> key, data |-> entry.data, found |-> TRUE]]
    /\ UNCHANGED notCache

\* has(key)
CacheHas ==
    /\ \E key \in CacheKeys :
          LET entry == cache.cache[key]
          IN IF entry = NoEntry
             THEN cache' = [cache EXCEPT
                      !.last = [op |-> "has", key |-> key, data |-> NULL, found |-> FALSE]]
             ELSE IF isExpired(entry, cache.now)
             THEN cache' = [cache EXCEPT
                      !.cache[key] = NoEntry,
                      !.last = [op |-> "has", key |-> key, data |-> NULL, found |-> FALSE]]
             ELSE cache' = [cache EXCEPT
                      !.last = [op |-> "has", key |-> key, data |-> NULL, found |-> TRUE]]
    /\ UNCHANGED notCache

\* delete(key)
CacheDelete ==
    /\ \E key \in CacheKeys :
          cache' = [cache EXCEPT
              !.cache[key] = NoEntry,
              !.written[key] = NoEntry,
              !.last = [op |-> "delete", key |-> key, data |-> NULL, found |-> FALSE]]
    /\ UNCHANGED notCache

\* clearExpired()
CacheClearExpired ==
    /\ cache' = [cache EXCEPT
           !.cache = [key \in CacheKeys |->
               IF cache.cache[key] # NoEntry /\ isExpired(cache.cache[key], cache.now)
               THEN NoEntry ELSE cache.cache[key]],
           !.last = [op |-> "clearExpired", key |-> NONE, data |-> NULL, found |-> FALSE]]
    /\ UNCHANGED notCache

\* clear()
CacheClear ==
    /\ cache' = [cache EXCEPT
           !.cache = [key \in CacheKeys |-> NoEntry],
           !.written = [key \in CacheKeys |-> NoEntry],
           !.last = [op |-> "clear", key |-> NONE, data |-> NULL, found |-> FALSE]]
    /\ UNCHANGED notCache

NextCache ==
    \/ CacheClockTicks
    \/ CacheSet
    \/ CacheGet
    \/ CacheHas
    \/ CacheDelete
    \/ CacheClearExpired
    \/ CacheClear

SpecCache == InitStore /\ [][NextCache]_vars

\* the last set(key, ...) was followed by no delete(key) or clear() and is at
\* most its ttl old
Fresh(key) ==
    /\ cache.written[key] # NoEntry
    /\ cache.now - cache.written[key].timestamp <= cache.written[key].ttl

\* a call of get or has has just returned
Looked ==
    /\ cache'.now = cache.now
    /\ cache'.last.op \in {"get", "has"}

\* C29 (cache freshness): get(key) returns the value of the most recent
\* set(key, v, ttl) when no delete(key) or clear() followed that set and it is
\* at most ttl old, and has(key) is then true; otherwise get returns null and
\* has returns false.
C29_CacheFreshness ==
    [][Looked =>
         LET key == cache'.last.key
         IN /\ cache'.last.found = Fresh(key)
            /\ cache'.last.op = "get" =>
                 cache'.last.data = IF Fresh(key) THEN cache.written[key].data ELSE NULL]_vars

\* get returned a value that was set exactly ttl ago, at a time after the
\* cache was created
C29_Witness ==
    /\ cache.last.op = "get"
    /\ cache.last.data = "v2"
    /\ cache.written[cache.last.key].ttl = MaxTtl
    /\ cache.now - cache.written[cache.last.key].timestamp = MaxTtl
    /\ cache.written[cache.last.key].timestamp > 0

-----------------------------------------------------------------------------
(* gamesSlice.ts: fetchGamesByCategory called with any params over any     *)
(* page size of the state, one call after the other                        *)

MaxInvocations == 2      \* calls of the thunk in one behaviour

\* page sizes a caller passes: none, the initial one, and 200, which Load
\* More reaches from 10 in steps of 10
ParamPageSizes == {0, INITIAL_PAGE_SIZE, 200}
\* page sizes of the state before the first call
StatePageSizes == {0, INITIAL_PAGE_SIZE, INITIAL_PAGE_SIZE + LOAD_MORE_INCREMENT}

InitThunk ==
    /\ \E q \in SearchTexts, pageSize \in StatePageSizes :
          games = [initialState EXCEPT !.searchQuery = q, !.pageSize = pageSize]
    /\ lastAction = NoAction
    /\ categories = initialCategoriesState
    /\ lastCatAction = NoAction
    /\ retry = RetryCall(3, 1000, 10000)
    /\ cls = NoClassification
    /\ norm = NoMapping
    /\ fetch = NoFetch
    /\ limiter = NoLimiter
    /\ config = NoConfig
    /\ bar = NoBar
    /\ cache = NoCache
    /\ thunk = NoThunk

\* lines 205-240: dispatch(fetchGamesByCategory(getPageUrl, params)) up to the
\* call of the service
FetchGamesByCategoryStarts ==
    /\ thunk.pc \in {"idle", "done"}
    /\ Len(thunk.dispatched) < 2 * MaxInvocations
    /\ \E getPageUrl \in {CASINO, NEW_GAMES}, search \in SearchTexts,
          pageNumber \in {0, 2}, pageSize \in ParamPageSizes :
          LET pending == gamesReducer(games, byCategoryPending)
              params == [search |-> search, pageNumber |-> pageNumber,
                         pageSize |-> pageSize]
          IN /\ games' = pending
             /\ lastAction' = byCategoryPending
             /\ thunk' = [thunk EXCEPT
                    !.pc = "running",
                    !.getPageUrl = getPageUrl,
                    !.params = thunkFetchParams(getPageUrl, params, pending),
                    !.dispatched = Append(@, byCategoryPending),
                    !.args = params,
                    !.read = pending.pageSize]
    /\ UNCHANGED <<retry, notThunk>>

\* lines 240-251: the service resolves; FULFILLED is dispatched
FetchGamesByCategoryResolves ==
    /\ thunk.pc = "running"
    /\ \E total \in UpstreamTotals :
       \E mappedGames \in UpstreamGames(thunk.getPageUrl) :
          LET request == [getPageUrl |-> thunk.getPageUrl, params |-> thunk.params]
              a == byCategoryFulfilled(request, serviceResponse(request, mappedGames, total))
          IN /\ games' = gamesReducer(games, a)
             /\ lastAction' = a
             /\ thunk' = [thunk EXCEPT !.pc = "done", !.dispatched = Append(@, a)]
    /\ UNCHANGED <<retry, notThunk>>

\* lines 252-257: the service rejects; REJECTED is dispatched
FetchGamesByCategoryRejects ==
    /\ thunk.pc = "running"
    /\ \E message \in Messages :
          /\ games' = gamesReducer(games, byCategoryRejected(message))
          /\ lastAction' = byCategoryRejected(message)
          /\ thunk' = [thunk EXCEPT !.pc = "done",
                                    !.dispatched = Append(@, byCategoryRejected(message))]
    /\ UNCHANGED <<retry, notThunk>>

NextThunk ==
    \/ FetchGamesByCategoryStarts
    \/ FetchGamesByCategoryResolves
    \/ FetchGamesByCategoryRejects

SpecThunk == InitThunk /\ [][NextThunk]_vars

\* the call that has just succeeded had an active search on an endpoint
\* without search support, and so fetched with size 200
InflatedFetchSucceeded ==
    /\ thunk.pc = "done"
    /\ lastAction.type = "FETCH_GAMES_BY_CATEGORY_FULFILLED"
    /\ Len(trim(OrStr(thunk.args.search, games.searchQuery))) > 0
    /\ ~supportsSearch(thunk.getPageUrl)

\* params.pageSize, else the state's pageSize, else 10
CallerBasePageSize ==
    IF thunk.args.pageSize # 0 THEN thunk.args.pageSize
    ELSE IF thunk.read # 0 THEN thunk.read
    ELSE 10

\* C30 (page size after an inflated fetch), as stated: after the success of
\* a category fetch issued with the inflated size 200 the state's pageSize is
\* the caller's base page size and never 200, and pageNumber is 1.
C30_PageSizeNever200 ==
    InflatedFetchSucceeded =>
        /\ games.pageSize = CallerBasePageSize
        /\ games.pageSize # 200
        /\ games.pageNumber = 1

\* C30 (page size after an inflated fetch), amended: after the success of a
\* category fetch issued with the inflated size 200 the state's pageSize is
\* the caller's base page size, which is 200 only when the caller asked for
\* 200, and pageNumber is 1.
C30_BasePageSize ==
    InflatedFetchSucceeded =>
        /\ games.pageSize = CallerBasePageSize
        /\ games.pageNumber = 1

\* an inflated fetch succeeded whose caller passed no page size over a state
\* without one: 200 was requested and 10 is stored
C30_Witness ==
    /\ InflatedFetchSucceeded
    /\ thunk.params.pageSize = 200
    /\ thunk.args.pageSize = 0
    /\ thunk.read = 0
    /\ games.pageSize = 10

====
